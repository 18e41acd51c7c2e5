-------------------------------- MODULE Upload --------------------------------
(***************************************************************************)
(* Stored programs: how content becomes packets (src/src/drivers/coolledux *)
(* index.ts, content.ts, pixels.ts and wire.ts; drivers/coolledx), how the *)
(* packets and the receipts of the display are lost or repeated on their   *)
(* way, and what the upload analysis (diagnostics/upload-analysis.ts)      *)
(* makes of the receipts.  Only the sizes are scaled: tiles of TileWidth   *)
(* columns, chunks of ChunkSize codes, bytes of Height pixels.  Lengths in *)
(* two and four bytes, checksums and the escaped envelope are left out.    *)
(***************************************************************************)
EXTENDS LzssCodes, FiniteSets, SequencesExt

CONSTANTS
  TileWidth,   \* columns a segment may have (8 in the code)
  ChunkSize,   \* codes in a chunk (128)
  Width, Height, \* of the display; a byte of CoolLEDX packs Height pixels (8)
  Contents,    \* what may be shown
  MaxUploads,  \* bound on the uploads
  MaxReceipts, \* bound on the receipts recorded of one upload
  Stray        \* receipts of an earlier upload may arrive in a later one
\* The frames of an image or an animation are a list; those of a GIF are made of words.
IsList(list) == Len(list) \in Nat /\ DOMAIN list = 1 .. Len(list)
ASSUME UploadAssumption ==
  /\ {TileWidth, ChunkSize, Width, Height} \subseteq Nat \ {0}
  /\ {MaxUploads, MaxReceipts} \subseteq Nat /\ Stray \in BOOLEAN
  /\ \A content \in Contents :
       /\ content.type \in {"ShowFrame", "ShowAnimation", "ShowDiagnostic", "ShowGif"}
       /\ IsList(content.frames)
       /\ content.type = "ShowFrame" => Len(content.frames) = 1
       /\ content.type = "ShowDiagnostic" => content.kind \in {"graffiti", "animation"}
       /\ content.type = "ShowGif" => \A f \in DOMAIN content.frames : IsList(content.frames[f])

VARIABLES
  device,    \* the display: its protocol, and what it makes of a black Graffiti pixel
  known,     \* the profile's preferred strategy and its black semantics
  learned,   \* the same, as this session's evidence resolved them
  plan,      \* the last plan
  written,   \* packets of it that were written, when it is being sent
  reception, \* (external) what the display has received since an announcement
  shown,     \* (external) the program it shows
  receipts,  \* receipts under way
  recorded,  \* notifications recorded in the transaction
  arrived,   \* (history) positions of the packets of this upload that reached the display
  analysis,  \* of the last upload's receipts
  sends      \* (history) the contents uploaded so far
uploadVars == <<device, known, learned, plan, written, reception, shown, receipts, recorded,
                arrived, analysis, sends>>

------------------------------------------------------------------------------
(* Pixels.                                                                 *)

Strategies == {"graffiti", "animation-single-frame", "animation-identical-frames"}
Blacks == {"true-black", "white-sentinel"}

rgb444TransferChannel(v) == IF v >= 238 THEN 15 ELSE IF v <= 47 THEN 0 ELSE (v - 47) \div 14 + 1
rgb444PixelColor(pixel) == [i \in 1 .. 3 |-> rgb444TransferChannel(pixel[i])]
Black == <<0, 0, 0>>
DimBlue == <<0, 0, 4>>
isOff(pixel) == rgb444PixelColor(pixel) = Black

\* offColorForBehavior: only what is known of this display lets a zero word through.
AlwaysBlack(path, black) == Black
offColorForBehavior(path, black) ==
  IF path = "animation" \/ black = "true-black" THEN Black ELSE DimBlue

ColumnMajor(start, width) ==
  [i \in 1 .. width * Height |-> <<start + (i - 1) \div Height, (i - 1) % Height>>]
encodeFrameRegion(frame, tile, off) ==
  LET at == ColumnMajor(tile.start, tile.width)
  IN  [i \in DOMAIN at |-> IF isOff(frame[at[i]]) THEN off ELSE rgb444PixelColor(frame[at[i]])]
\* Diagnostic programs carry words, which are not converted.
encodeRawWordRegion(frame, tile) ==
  LET at == ColumnMajor(tile.start, tile.width) IN [i \in DOMAIN at |-> frame[at[i]]]

\* A mutant that leaves out the columns that do not fill a tile.
CroppedTiles(width) ==
  [i \in 1 .. width \div TileWidth |-> [start |-> (i - 1) * TileWidth, width |-> TileWidth]]
tileColumns(width) ==
  [i \in 1 .. (width + TileWidth - 1) \div TileWidth |->
     [start |-> (i - 1) * TileWidth,
      width |-> IF i * TileWidth <= width THEN TileWidth ELSE width - (i - 1) * TileWidth]]

------------------------------------------------------------------------------
(* Programs and packets.                                                   *)

\* A segment: its header, then the pixels of its frames.
segment(kind, tile, frames) ==
  <<<<"segment", [kind |-> kind, tile |-> tile, frames |-> Len(frames)]>>>>
    \o FlattenSeq([f \in DOMAIN frames |-> [i \in DOMAIN frames[f] |-> <<"word", frames[f][i]>>]])
buildProgram(segments) == <<<<"program", Len(segments)>>>> \o FlattenSeq(segments)

Pieces(codes) ==
  [i \in 1 .. (Len(codes) + ChunkSize - 1) \div ChunkSize |->
     SubSeq(codes, (i - 1) * ChunkSize + 1,
            IF i * ChunkSize < Len(codes) THEN i * ChunkSize ELSE Len(codes))]
\* A mutant that counts the chunks from one.
buildChunksFromOne(codes) ==
  LET pieces == Pieces(codes)
  IN  [i \in DOMAIN pieces |->
         [type |-> "chunk", total |-> Len(codes), index |-> i, data |-> pieces[i]]]
buildDataChunkPackets(codes) ==
  LET pieces == Pieces(codes)
  IN  [i \in DOMAIN pieces |->
         [type |-> "chunk", total |-> Len(codes), index |-> i - 1, data |-> pieces[i]]]
\* The announcement carries a checksum of the program: the program, for the display.
compileProgram(segments) ==
  LET program == buildProgram(segments)
  IN  <<[type |-> "announce", program |-> program]>>
        \o buildDataChunkPackets(lzssCompressSafe(program))

\* Off stands for the pixels that are off; without one, the frames hold words.
Raw == <<>>
Tiled(kind, frames, off) ==
  LET tiles == tileColumns(Width)
      encoded(frame, tile) == IF off = Raw THEN encodeRawWordRegion(frame, tile)
                              ELSE encodeFrameRegion(frame, tile, off)
  IN  compileProgram([t \in DOMAIN tiles |->
        segment(kind, tiles[t], [f \in DOMAIN frames |-> encoded(frames[f], tiles[t])])])
compileAnimation(frames) == Tiled("animation", frames, offColorForBehavior("animation", "none"))
compileGraffitiFrame(frame, black) ==
  Tiled("graffiti", <<frame>>, offColorForBehavior("graffiti", black))
compileRawWords(kind, frames) == Tiled(kind, frames, Raw)
compileGif(content) ==
  compileProgram(<<segment("gif", [start |-> 0, width |-> content.width], content.frames)>>)

\* What the session has observed comes before what the profile says.
selectStaticStrategy ==
  IF learned.strategy # "none" THEN learned.strategy
  ELSE IF known.strategy # "none" THEN known.strategy ELSE "graffiti"
graffitiBlackFor == IF learned.black # "none" THEN learned.black ELSE known.black
compileStaticRaster(frame) ==
  CASE selectStaticStrategy = "graffiti" -> compileGraffitiFrame(frame, graffitiBlackFor)
    [] selectStaticStrategy = "animation-single-frame" -> compileAnimation(<<frame>>)
    [] selectStaticStrategy = "animation-identical-frames" -> compileAnimation(<<frame, frame>>)

\* CoolLEDX: three planes of bits, a column of Height bits to a byte.
packCoolLedPixels(frame) ==
  FlattenSeq([channel \in 1 .. 3 |->
    [x \in 1 .. Width |-> [y \in 0 .. Height - 1 |-> frame[<<x - 1, y>>][channel] > 127]]])
encodeTransferPackets(content) ==
  LET bytes == FlattenSeq([f \in DOMAIN content.frames |-> packCoolLedPixels(content.frames[f])])
      payload == <<[type |-> content.type, frames |-> Len(content.frames)]>> \o bytes
      pieces == Pieces(payload)
  IN  [i \in DOMAIN pieces |->
         [type |-> "chunk", total |-> Len(payload), index |-> i - 1, data |-> pieces[i]]]

------------------------------------------------------------------------------
(* Plans.                                                                  *)

Fits(content) ==
  IF content.type = "ShowGif" THEN content.width <= Width
  ELSE content.width = Width
\* createContentPlan and planCoolLedOperation throw for what they have no route for.
Plannable(content) ==
  IF device.driver = "coolledux" THEN Fits(content)
  ELSE content.type \in {"ShowFrame", "ShowAnimation"} /\ content.width = Width
PacketsOf(content) ==
  IF device.driver = "coolledx" THEN encodeTransferPackets(content)
  ELSE CASE content.type = "ShowFrame" -> compileStaticRaster(content.frames[1])
         [] content.type = "ShowAnimation" -> compileAnimation(content.frames)
         [] content.type = "ShowGif" -> compileGif(content)
         [] content.type = "ShowDiagnostic" -> compileRawWords(content.kind, content.frames)
NoPlannedUpload == [content |-> [type |-> "none"], packets |-> <<>>, live |-> FALSE]

------------------------------------------------------------------------------
(* The display.                                                            *)

\* The packets that follow the announcement, if there is one.
Chunked(packets) == IF packets[1].type = "announce" THEN Tail(packets) ELSE packets
Joined(packets) == FlattenSeq([i \in DOMAIN Chunked(packets) |-> Chunked(packets)[i].data])

\* The segments of a program, each with its frames of words
Frames(program, from, tile, count) ==
  [f \in 1 .. count |->
     [p \in {<<x, y>> : x \in tile.start .. tile.start + tile.width - 1, y \in 0 .. Height - 1} |->
        program[from + (f - 1) * tile.width * Height + (p[1] - tile.start) * Height + p[2] + 1][2]]]
Segments(program) ==
  {[kind |-> program[i][2].kind, tile |-> program[i][2].tile,
    frames |-> Frames(program, i, program[i][2].tile, program[i][2].frames)] :
     i \in {j \in DOMAIN program : program[j][1] = "segment" /\ program[j][2].kind # "gif"}}
\* A segment wider than a tile is not drawn beyond it.
Lights(program, frame, x, y) ==
  {[word |-> s.frames[frame][<<x, y>>], kind |-> s.kind] :
     s \in {t \in Segments(program) : /\ x \in t.tile.start .. t.tile.start + t.tile.width - 1
                                      /\ x < t.tile.start + TileWidth /\ frame <= Len(t.frames)}}

\* What the light is meant to be: off is dark, or the dim blue where black turns white.
LooksLike(pixel, light) ==
  IF isOff(pixel)
  THEN \/ light.word = DimBlue
       \/ light.word = Black /\ (light.kind = "graffiti" => device.black = "true-black")
  ELSE light.word = rgb444PixelColor(pixel)
Shows(program, content) ==
  CASE content.type \in {"ShowFrame", "ShowAnimation"} ->
         \A f \in DOMAIN content.frames, x \in 0 .. Width - 1, y \in 0 .. Height - 1 :
           /\ Lights(program, f, x, y) # {}
           /\ \A light \in Lights(program, f, x, y) : LooksLike(content.frames[f][<<x, y>>], light)
    [] content.type = "ShowDiagnostic" ->
         \A f \in DOMAIN content.frames, x \in 0 .. Width - 1, y \in 0 .. Height - 1 :
           Lights(program, f, x, y) = {[word |-> content.frames[f][<<x, y>>], kind |-> content.kind]}
    [] content.type = "ShowGif" -> 
         Tail(program) = segment("gif", [start |-> 0, width |-> content.width], content.frames)

\* CoolLEDX reads its planes back.
Unpacked(payload, f, x, y) ==
  [channel \in 1 .. 3 |-> payload[1 + ((f - 1) * 3 + channel - 1) * Width + x + 1][y]]
TurnsOn(payload, content) ==
  \A f \in DOMAIN content.frames, x \in 0 .. Width - 1, y \in 0 .. Height - 1 :
    Unpacked(payload, f, x, y) = [channel \in 1 .. 3 |-> content.frames[f][<<x, y>>][channel] > 127]

NoReception == [program |-> <<>>, total |-> 0, chunks |-> <<>>]
\* A program is complete when its chunks, in order, decode to what was announced.
Complete(r) ==
  LET codes == FlattenSeq([i \in 1 .. Len(r.chunks) |-> r.chunks[i]])
  IN  r.program # <<>> /\ Len(codes) = r.total /\ lzssDecompress(codes) = r.program
After(r, packet) ==
  IF packet.type = "announce" THEN [NoReception EXCEPT !.program = packet.program]
  ELSE IF packet.index = Len(r.chunks)
       THEN [r EXCEPT !.total = packet.total, !.chunks = Append(r.chunks, packet.data)]
  ELSE r
Receipt(packet, upload) ==
  [type |-> packet.type, index |-> IF packet.type = "chunk" THEN packet.index ELSE 0,
   upload |-> upload]

------------------------------------------------------------------------------
\* What is counted and told of the receipts; which were seen in which order is left out.
NoAnalysis ==
  [announced |-> 0, received |-> 0, observed |-> {}, missing |-> {}, unexpected |-> {}]
\* analyzeStoredProgramUpload
Chunks(packets) == Cardinality({i \in DOMAIN packets : packets[i].type = "chunk"})
Recorded(type) == {k \in DOMAIN recorded : recorded[k].type = type}
Indices == {recorded[k].index : k \in Recorded("chunk")}
\* A mutant that believes a chunk received when a later one was.
UpToTheLast(chunkCount, observed) ==
  {i \in 0 .. chunkCount - 1 : ~\E index \in observed : index >= i}
Missing(chunkCount, observed) == (0 .. chunkCount - 1) \ observed
analyzeStoredProgramUpload(chunkCount) ==
  LET observed == {index \in Indices : index < chunkCount}
  IN  [announced |-> Cardinality(Recorded("announce")),
       received |-> Cardinality(Recorded("chunk")),
       observed |-> observed, missing |-> Missing(chunkCount, observed),
       unexpected |-> Indices \ observed]

UploadInit ==
  /\ device \in [driver : {"coolledux"}, black : Blacks] \cup [driver : {"coolledx"}, black : {"true-black"}]
  /\ known \in {[strategy |-> "none", black |-> "white-sentinel"]}
       \cup (IF device.black = "true-black"
             THEN {[strategy |-> "animation-single-frame", black |-> "true-black"]} ELSE {})
  /\ learned = [strategy |-> "none", black |-> "none"]
  /\ plan = NoPlannedUpload /\ written = 0 /\ reception = NoReception /\ shown = <<>>
  /\ receipts = {} /\ recorded = <<>> /\ arrived = {} /\ analysis = NoAnalysis /\ sends = <<>>

UploadTypeOK ==
  /\ device.driver \in {"coolledux", "coolledx"} /\ device.black \in Blacks
  /\ learned \in [strategy : Strategies \cup {"none"}, black : Blacks \cup {"none"}]
  /\ plan.content \in Contents \cup {NoPlannedUpload.content}
  /\ written \in 0 .. Len(plan.packets) /\ arrived \subseteq 1 .. written
  /\ Len(recorded) <= MaxReceipts /\ Len(sends) <= MaxUploads
  /\ \A receipt \in receipts : receipt.upload <= Len(sends)

Sending == plan.live /\ written < Len(plan.packets)

\* What the session learns of this display between two uploads is what the display does.
Learn(strategy, black) ==
  /\ ~Sending /\ sends = <<>> /\ learned = [strategy |-> "none", black |-> "none"]
  /\ black \in {"none", device.black}
  /\ learned' = [strategy |-> strategy, black |-> black]
  /\ learned' # learned
  /\ UNCHANGED <<device, known, plan, written, reception, shown, receipts, recorded, arrived,
                 analysis, sends>>

Plan(content) ==
  /\ ~Sending /\ Plannable(content) /\ Len(sends) < MaxUploads
  /\ plan' = [content |-> content, packets |-> PacketsOf(content),
              live |-> device.driver = "coolledux"]
  /\ written' = 0 /\ recorded' = <<>> /\ arrived' = {} /\ analysis' = NoAnalysis
  /\ receipts' = IF Stray THEN receipts ELSE {}
  /\ sends' = IF plan'.live THEN Append(sends, content) ELSE sends
  /\ UNCHANGED <<device, known, learned, reception, shown>>

\* The next packet, written without response, reaches the display or does not.
Transmit ==
  /\ Sending /\ written' = written + 1
  /\ LET packet == plan.packets[written']
     IN  \/ UNCHANGED <<reception, shown, receipts, arrived>>
         \/ /\ reception' = After(reception, packet)
            /\ shown' = IF Complete(reception') THEN reception'.program ELSE shown
            /\ arrived' = arrived \cup {written'}
            /\ receipts' \in {receipts, receipts \cup {Receipt(packet, Len(sends))}}
  /\ UNCHANGED <<device, known, learned, plan, recorded, analysis, sends>>

\* A receipt arrives while the upload is being sent, perhaps not for the last time.
ReceiptArrives ==
  /\ Sending /\ Len(recorded) < MaxReceipts
  /\ \E receipt \in receipts :
       /\ recorded' = Append(recorded, receipt)
       /\ receipts' \in {receipts, receipts \ {receipt}}
  /\ UNCHANGED <<device, known, learned, plan, written, reception, shown, arrived, analysis, sends>>

\* The send fails or is cut off by the loss of the link: the packets left are never written.
Abort ==
  /\ Sending /\ plan' = NoPlannedUpload /\ written' = 0
  /\ recorded' = <<>> /\ arrived' = {}
  /\ reception' \in {reception, NoReception}
  /\ UNCHANGED <<device, known, learned, shown, receipts, analysis, sends>>

Analyse ==
  /\ plan.live /\ ~Sending /\ analysis = NoAnalysis
  /\ analysis' = analyzeStoredProgramUpload(Chunks(plan.packets))
  /\ UNCHANGED <<device, known, learned, plan, written, reception, shown, receipts, recorded,
                 arrived, sends>>

UploadNext ==
  \/ \E strategy \in Strategies \cup {"none"}, black \in Blacks \cup {"none"} : Learn(strategy, black)
  \/ \E content \in Contents : Plan(content)
  \/ Transmit \/ ReceiptArrives \/ Abort \/ Analyse
UploadSpec == UploadInit /\ [][UploadNext]_uploadVars

------------------------------------------------------------------------------
\* Every plan says exactly what it was made from: its chunks, joined in order, decode to a
\* program of which every pixel of every frame comes out as the content has it, on this very
\* display, whatever the strategy and the narrower last tile, and no dark pixel turns white.
PacketsCarryTheContent ==
  plan # NoPlannedUpload =>
    IF plan.live THEN Shows(lzssDecompress(Joined(plan.packets)), plan.content)
    ELSE TurnsOn(Joined(plan.packets), plan.content)

\* An upload of which no packet was lost shows its content when the last packet is written,
\* whatever was cut off before it and whatever the display had received of that.
WholeUploadsAreShown ==
  plan.live /\ ~Sending /\ arrived = DOMAIN plan.packets =>
    shown # <<>> /\ Shows(shown, plan.content)

\* From the content to the light: the packets of every plan, and of every upload that arrives.
ContentReachesTheLights == PacketsCarryTheContent /\ WholeUploadsAreShown

\* A chunk that never reached the display is reported missing, however often and in which order
\* the receipts of the others came, and no receipt is out of range (upload-analysis.ts; unless
\* receipts outlive their upload).
LostChunksAreMissing ==
  analysis # NoAnalysis =>
    /\ \A i \in DOMAIN plan.packets :
         plan.packets[i].type = "chunk" /\ i \notin arrived => plan.packets[i].index \in analysis.missing
    /\ analysis.unexpected = {}
==============================================================================
