--------------------------------- MODULE Wire ---------------------------------
(***************************************************************************)
(* The reading and writing path of a client connection (core/src/conn.rs): *)
(* frames are decoded, header blocks are put together from their fragments,*)
(* decompressed, validated and dispatched; answers are compressed and      *)
(* framed.  Client and proxy share one HPACK table in each direction.      *)
(*                                                                         *)
(* `px` is the proxy's connection, changed by operators that follow its    *)
(* handlers; `down` is what it wrote.  A frame on the way up carries what  *)
(* its payload means (`block`, `params`) beside its raw form, and `bad`,   *)
(* which no code reads: that the client broke a rule by sending it.  The   *)
(* length of a header block is the number of its representations.          *)
(***************************************************************************)
EXTENDS Integers, Sequences, SequencesExt, FiniteSetsExt

CONSTANTS
    Static, Cost(_), MaxList,   (* See Hpack.                               *)
    MaxFrame,                   (* See FrameCodec.                          *)
    PeerFrame,                  (* MAX_FRAME_SIZE of the client.            *)
    TableMax,                   (* The table size both decoders start with. *)
    MaxStreams,                 (* SETTINGS_MAX_CONCURRENT_STREAMS.         *)
    MaxBlock,                   (* MAX_HEADER_BLOCK_BYTES.                  *)
    MaxContinuations,           (* Limits::max_continuations.               *)
    Asks, Answers, Trailers,    (* Field sections: Asks[s] for each stream. *)
    Corrupt,                    (* Blocks no encoder makes.                 *)
    Params, Stray,              (* SETTINGS, and other frames, of the client.*)
    LateTrailers,               (* May trailers cross the end of a stream?  *)
    LastStream, MaxUp, MaxDown, (* Bounds: streams, frames on the wire,     *)
    MaxSettings,                (* SETTINGS without an acknowledgement,     *)
    Pieces, Resizes             (* lengths of fragments, sizes of a table.  *)

Frames   == INSTANCE FrameCodec
Table    == INSTANCE Hpack
Messages == INSTANCE Messages

Streams == 1..LastStream
None    == 0

VARIABLES
    px,         (* The proxy's connection.                                  *)
    up, down,   (* Frames on the way.                                       *)
    cause,      (* Was the frame the proxy took last a bad one?             *)
    cenc, rest, (* The client's encoder; what is left of a block it sends.  *)
    asked,      (* What it asked for.                                       *)
    spoilt,     (* It has broken a rule, and sends no more.                 *)
    cdec, limit,(* Its decoder; the table size it last heard acknowledged.  *)
    sizes,      (* Table sizes it announced and has no acknowledgement of.  *)
    heard       (* What became of each request.                             *)

client == <<cenc, rest, asked, spoilt, cdec, limit, sizes, heard>>
vars   == <<px, up, down, cause, client>>

Whole == [stream |-> None, left |-> <<>>, fin |-> FALSE, octets |-> 0, pieces |-> 0]

Init ==
    /\ px = [dec |-> Table!NewTable(TableMax), enc |-> Table!NewEncoder(TableMax),
             open |-> None, openEnd |-> FALSE, buffer |-> <<>>, continuations |-> 0,
             hi |-> 0, st |-> [s \in Streams |-> "none"], alive |-> TRUE,
             got |-> [s \in Streams |-> [what |-> "nothing", fields |-> <<>>, trailers |-> {}]],
             out |-> <<>>]
    /\ up = <<>> /\ down = <<>> /\ cause = FALSE
    /\ cenc = Table!NewEncoder(TableMax) /\ rest = Whole /\ asked = <<>> /\ spoilt = FALSE
    /\ cdec = Table!NewTable(TableMax) /\ limit = TableMax /\ sizes = <<>>
    /\ heard = [s \in Streams |-> "nothing"]

-----------------------------------------------------------------------------
(* What the proxy writes *)

Fail(p)        == [p EXCEPT !.alive = FALSE]
Write(p, f)    == [p EXCEPT !.out = Append(@, f)]
Plain(kind, s) == [kind |-> kind, stream |-> s, block |-> <<>>, fields |-> <<>>]

Live(p, s) == p.st[s] \in {"open", "half", "local"}

\* write_rst_stream: whatever was known of the stream is forgotten.
WriteRst(p, s) ==
    Write([p EXCEPT !.st[s] = IF Live(p, s) THEN "none" ELSE @], Plain("RST_STREAM", s))

WriteHead(p, s, fields) ==
    LET e == Table!Encode(p.enc, fields)
    IN  Write([p EXCEPT !.enc = e.enc],
              [kind |-> "HEADERS", stream |-> s, block |-> e.block, fields |-> fields])

\* SendHeaders with END_STREAM; on a stream whose answer is over it is an
\* error, and resets the stream after the HEADERS went out.
SendResponse(p, s, fields) ==
    LET q == WriteHead(p, s, fields)
    IN  CASE p.st[s] = "open"  -> [q EXCEPT !.st[s] = "local"]
          [] p.st[s] = "half"  -> [q EXCEPT !.st[s] = "none"]
          [] p.st[s] = "local" -> WriteRst(q, s)

-----------------------------------------------------------------------------
(* recv_request, reject_stream *)

Full(p) == Cardinality({s \in Streams : Live(p, s)}) >= MaxStreams

TooLarge == <<[name |-> ":status", value |-> "431", sensitive |-> FALSE]>>

RejectStream(p, s) ==
    CASE Live(p, s)                          -> SendResponse(p, s, TooLarge)
      [] ~Live(p, s) /\ s <= p.hi            -> Fail(p)
      [] ~Live(p, s) /\ s > p.hi /\ Full(p)  -> WriteRst([p EXCEPT !.hi = s], s)
      [] ~Live(p, s) /\ s > p.hi /\ ~Full(p) ->
            SendResponse([p EXCEPT !.hi = s, !.st[s] = "half", !.got[s].what = "rejected"],
                         s, TooLarge)

\* No DATA is sent here, so any length but zero is a broken promise.
BodyError(fields) == Messages!Length(fields) \notin {"none", "0"}

\* Mutant: trailers are not validated.
RecvTrailersUnchecked(p, s, fields) ==
    IF p.st[s] = "half" \/ ~p.openEnd \/ BodyError(p.got[s].fields)
    THEN WriteRst(p, s)
    ELSE [p EXCEPT !.got[s].trailers = {fields},
                   !.st[s] = IF @ = "open" THEN "half" ELSE "none"]

RecvTrailers(p, s, fields) ==
    IF p.st[s] = "half" \/ ~p.openEnd \/ ~Messages!AreTrailers(fields) \/ BodyError(p.got[s].fields)
    THEN WriteRst(p, s)
    ELSE [p EXCEPT !.got[s].trailers = {fields},
                   !.st[s] = IF @ = "open" THEN "half" ELSE "none"]

Dispatch(p, s, fields) ==
    LET q == [p EXCEPT !.hi = s, !.st[s] = IF p.openEnd THEN "half" ELSE "open"]
    IN  IF \/ ~Messages!IsRequest(fields)
           \/ Messages!Length(fields) = "junk"
           \/ p.openEnd /\ BodyError(fields)
        THEN WriteRst([q EXCEPT !.got[s].what = "malformed"], s)
        ELSE [q EXCEPT !.got[s].what = "dispatched", !.got[s].fields = fields]

RecvRequest(p, s, fields) ==
    CASE Live(p, s)                          -> RecvTrailers(p, s, fields)
      [] ~Live(p, s) /\ s <= p.hi            -> Fail(p)
      [] ~Live(p, s) /\ s > p.hi /\ Full(p)  ->
            WriteRst([p EXCEPT !.hi = s, !.got[s].what = "refused"], s)
      [] ~Live(p, s) /\ s > p.hi /\ ~Full(p) -> Dispatch(p, s, fields)

-----------------------------------------------------------------------------
(* read_header_block, handle_frame, drive *)

DecodeBlock(p, s, block) ==
    LET d == Table!Decode(p.dec, block, TableMax)
        q == [p EXCEPT !.dec = d.table, !.buffer = <<>>, !.continuations = 0]
    IN  CASE d.result = "compression" -> Fail(q)
          [] d.result = "too_large"   -> RejectStream(q, s)
          [] d.result = "ok"          -> RecvRequest(q, s, d.fields)

\* Every fragment that does not end its block counts as a continuation.
ReadHeaderBlock(p, s, fragment, last) ==
    LET block == p.buffer \o fragment
    IN  CASE Len(block) > MaxBlock -> Fail(p)
          [] Len(block) <= MaxBlock /\ last -> DecodeBlock(p, s, block)
          [] Len(block) <= MaxBlock /\ ~last ->
                IF p.continuations + 1 > MaxContinuations THEN Fail(p)
                ELSE [p EXCEPT !.buffer = block, !.continuations = @ + 1]

\* Scaled to the frames of the instances: the default MAX_FRAME_SIZE, and the largest.
MaxWindow  == 20
FrameSizes == 12..20

\* Settings::apply, one parameter at a time; the first illegal one is fatal.
Illegal(param) ==
    CASE param.id = "ENABLE_PUSH"         -> param.value \notin 0..1
      [] param.id = "INITIAL_WINDOW_SIZE" -> param.value > MaxWindow
      [] param.id = "MAX_FRAME_SIZE"      -> param.value \notin FrameSizes
      [] OTHER                            -> FALSE

\* The encoder follows the last table size of the frame.
RecvSettings(p, params) ==
    LET at == {i \in DOMAIN params : params[i].id = "HEADER_TABLE_SIZE"}
    IN  IF \E i \in DOMAIN params : Illegal(params[i]) THEN Fail(p)
        ELSE Write([p EXCEPT !.enc =
                        IF at = {} THEN @ ELSE Table!SetMaxTableSize(@, params[Max(at)].value)],
                   Plain("ACK", None))

Fragment(f) == f.raw.kind \in {"HEADERS", "CONTINUATION"}
Ends(f)     == Frames!EndHeaders \in f.raw.flags

\* Section 4.3: a block, once begun, is followed by its continuations only.
InPlace(p, f) ==
    IF p.open = None THEN f.raw.kind # "CONTINUATION"
    ELSE f.raw.kind = "CONTINUATION" /\ f.raw.stream = p.open

HandleFrame(p, f) ==
    LET s == f.raw.stream
        q == [p EXCEPT !.openEnd = IF p.open = None THEN Frames!EndStream \in f.raw.flags ELSE @,
                       !.open = IF Ends(f) THEN None ELSE s]
    IN  CASE ~InPlace(p, f) -> Fail(p)
          [] InPlace(p, f) /\ Fragment(f) -> ReadHeaderBlock(q, s, f.block, Ends(f))
          [] InPlace(p, f) /\ f.raw.kind = "SETTINGS" ->
                IF Frames!Ack \in f.raw.flags THEN p ELSE RecvSettings(p, f.params)
          [] InPlace(p, f) /\ f.raw.kind = "PING" ->
                IF Frames!Ack \in f.raw.flags THEN p ELSE Write(p, Plain("PONG", None))

\* Mutant: a frame that is thrown away may sit inside a header block.
TakeIgnoresOutright(p, f) ==
    LET d == Frames!Decode(f.raw)
    IN  CASE d.outcome = "error"   -> Fail(p)
          [] d.outcome = "ignored" -> p
          [] d.outcome = "frame"   -> HandleFrame(p, f)

\* A frame that is thrown away is still a frame (reject_if_mid_header_block).
ThrowAway(p) == IF p.open = None THEN p ELSE Fail(p)

Take(p, f) ==
    LET d == Frames!Decode(f.raw)
    IN  CASE d.outcome = "error"   -> Fail(p)
          [] d.outcome = "ignored" -> ThrowAway(p)
          [] d.outcome = "frame"   -> HandleFrame(p, f)

\* What a handler queued goes out after it.
Become(q) == px' = [q EXCEPT !.out = <<>>] /\ down' = down \o q.out

TakeFrame ==
    /\ px.alive /\ up # <<>> /\ Len(down) < MaxDown
    /\ Become(Take(px, Head(up)))
    /\ up' = Tail(up) /\ cause' = Head(up).bad
    /\ UNCHANGED client

\* The service answers with a head that is the whole response.
Answer(s, fields) ==
    /\ px.alive /\ px.got[s].what = "dispatched" /\ px.st[s] \in {"open", "half"}
    /\ Len(down) < MaxDown
    /\ Become(SendResponse(px, s, fields))
    /\ UNCHANGED <<up, cause, client>>

-----------------------------------------------------------------------------
(* The client *)

Send(raw, block, params, bad) ==
    /\ ~spoilt /\ Len(up) < MaxUp
    /\ up' = Append(up, [raw |-> raw, block |-> block, params |-> params, bad |-> bad])
    /\ spoilt' = bad
    /\ UNCHANGED <<px, down, cause, cdec, limit, heard>>

Raw(kind, s, block, fin, last) ==
    Frames!Write([kind |-> kind, stream |-> s, length |-> Len(block), ack |-> FALSE,
                  endStream |-> fin, endHeaders |-> last])

\* Send the next n representations of a block, or all that is left, which ends
\* it.  A block too long, or in too many pieces, breaks the proxy's limits.
All == -1

SendFragment(kind, b, n, fault) ==
    LET k     == IF n = All THEN Len(b.left) ELSE n
        now   == SubSeq(b.left, 1, k)
        after == [b EXCEPT !.left = SubSeq(@, k + 1, Len(@)), !.octets = @ + k,
                           !.pieces = @ + 1]
    IN  /\ k <= Len(b.left)
        /\ Send(Raw(kind, b.stream, now, b.fin, n = All), now, <<>>,
                \/ fault
                \/ after.octets > MaxBlock
                \/ n # All /\ after.pieces > MaxContinuations)
        /\ rest' = IF n = All THEN Whole ELSE after
        /\ UNCHANGED sizes

Begin(s, block, fin) == [stream |-> s, left |-> block, fin |-> fin, octets |-> 0, pieces |-> 0]

NextStream == Len(asked) + 1

ClientHeaders(fields, n, fin) ==
    LET e == Table!Encode(cenc, fields)
    IN  /\ rest = Whole /\ NextStream \in Streams /\ fields \in Asks[NextStream]
        /\ SendFragment("HEADERS", Begin(NextStream, e.block, fin), n, FALSE)
        /\ cenc' = e.enc
        /\ asked' = Append(asked, [fields |-> fields, fin |-> fin, trailers |-> {}])

ClientCorrupt(block) ==
    /\ rest = Whole /\ NextStream \in Streams
    /\ SendFragment("HEADERS", Begin(NextStream, block, TRUE), All, TRUE)
    /\ UNCHANGED <<cenc, asked>>

ClientTrailers(s, fields, n) ==
    LET e == Table!Encode(cenc, fields)
    IN  /\ rest = Whole /\ s \in DOMAIN asked /\ ~asked[s].fin /\ asked[s].trailers = {}
        /\ heard[s] # "reset" /\ (LateTrailers \/ px.got[s].what = "dispatched")
        /\ SendFragment("HEADERS", Begin(s, e.block, TRUE), n, FALSE)
        /\ cenc' = e.enc
        /\ asked' = [asked EXCEPT ![s].trailers = {fields}]

ClientContinue(n) ==
    /\ rest # Whole
    /\ SendFragment("CONTINUATION", rest, n, FALSE)
    /\ UNCHANGED <<cenc, asked>>

\* A frame that has nothing to do with a header block, wherever it stands.
ClientStray(f) ==
    /\ f.kind = "CONTINUATION" => f.stream # rest.stream
    /\ Send(f, <<>>, <<>>, \/ Frames!WrongSize(f) \/ Frames!WrongPlace(f)
                          \/ rest # Whole \/ f.kind = "CONTINUATION")
    /\ UNCHANGED <<cenc, rest, asked, sizes>>

Announced == IF sizes = <<>> THEN limit ELSE Last(sizes)

ClientSettings(params) ==
    LET at == {i \in DOMAIN params : params[i].id = "HEADER_TABLE_SIZE"}
    IN  /\ rest = Whole /\ Len(sizes) < MaxSettings
        /\ Send(Frames!Write([kind |-> "SETTINGS", length |-> 6 * Len(params), ack |-> FALSE]),
                <<>>, params, \E i \in DOMAIN params : Illegal(params[i]))
        /\ sizes' = Append(sizes, IF at = {} THEN Announced ELSE params[Max(at)].value)
        /\ UNCHANGED <<cenc, rest, asked>>

\* The client's encoder may use less of the table than it was granted.
ClientResize(n) ==
    /\ rest = Whole /\ ~spoilt /\ n # cenc.table.max /\ NextStream \in Streams
    /\ cenc' = Table!SetMaxTableSize(cenc, n)
    /\ UNCHANGED <<px, up, down, cause, rest, asked, spoilt, cdec, limit, sizes, heard>>

\* Until a size is acknowledged the one before it may still be in use.
Allowed == Max({limit} \cup ToSet(sizes))

ClientTakeHead(f) ==
    LET d == Table!Decode(cdec, f.block, Allowed)
    IN  /\ cdec' = d.table
        /\ heard' = [heard EXCEPT ![f.stream] =
                CASE d.result # "ok" \/ d.fields # f.fields \/ d.table.max > Allowed -> "garbled"
                  [] d.result = "ok" /\ d.fields = f.fields /\ d.table.max <= Allowed ->
                        IF @ = "nothing" THEN "answered" ELSE "answered again"]
        /\ UNCHANGED <<limit, sizes>>

ClientTake ==
    /\ down # <<>>
    /\ down' = Tail(down)
    /\ LET f == Head(down)
       IN  CASE f.kind = "HEADERS" -> ClientTakeHead(f)
             [] f.kind = "ACK" -> /\ limit' = Head(sizes) /\ sizes' = Tail(sizes)
                                  /\ UNCHANGED <<cdec, heard>>
             [] f.kind = "RST_STREAM" ->
                    /\ heard' = [heard EXCEPT ![f.stream] = IF @ = "nothing" THEN "reset" ELSE @]
                    /\ UNCHANGED <<cdec, limit, sizes>>
             [] f.kind = "PONG" -> UNCHANGED <<cdec, limit, sizes, heard>>
    /\ UNCHANGED <<px, up, cause, cenc, rest, asked, spoilt>>

Next ==
    \/ TakeFrame
    \/ \E s \in Streams, fields \in Answers : Answer(s, fields)
    \/ \E fields \in UNION ToSet(Asks), n \in Pieces \cup {All}, fin \in BOOLEAN : ClientHeaders(fields, n, fin)
    \/ \E s \in Streams, fields \in Trailers, n \in Pieces \cup {All} : ClientTrailers(s, fields, n)
    \/ \E n \in Pieces \cup {All} : ClientContinue(n)
    \/ \E block \in Corrupt : ClientCorrupt(block)
    \/ \E f \in Stray : ClientStray(f)
    \/ \E params \in Params : ClientSettings(params)
    \/ \E n \in Resizes : ClientResize(n)
    \/ ClientTake

Spec == Init /\ [][Next]_vars

-----------------------------------------------------------------------------
(* Properties *)

\* Nothing of a header block is under way upwards, or downwards.
UpQuiet   == rest = Whole /\ px.open = None /\ \A i \in DOMAIN up : up[i].block = <<>>
DownQuiet == \A i \in DOMAIN down : down[i].block = <<>>

\* Whatever an encoder may refer to, the decoder at the other end has at the
\* same index, when nothing is under way between them: through evictions,
\* resizes, blocks that are too large, refused and malformed requests
\* (hpack.rs:8).  The decoder may know more: of several resizes between two
\* blocks it hears of the last.
TablesInStep ==
    /\ px.alive /\ ~spoilt /\ UpQuiet => IsPrefix(cenc.table.entries, px.dec.entries)
    /\ px.alive /\ DownQuiet           => IsPrefix(px.enc.table.entries, cdec.entries)

\* A request, or a trailer section, reaches the service only if it is well
\* formed, and as it was sent; what is turned away was malformed, too large,
\* or one too many (conn.rs:1829).
ListSize(fields) == FoldLeft(LAMBDA n, f : n + Cost(f), 0, fields)

RequestsArriveAsSent ==
    \A s \in DOMAIN asked :
        LET g == px.got[s]
            a == asked[s]
        IN  /\ g.what = "dispatched" =>
                    /\ g.fields = a.fields /\ Messages!WellFormedRequest(a.fields)
                    /\ g.trailers \subseteq a.trailers
                    /\ \A t \in g.trailers : Messages!AreTrailers(t)
            /\ g.what = "rejected" => ListSize(a.fields) > MaxList
            /\ g.what = "malformed" =>
                    \/ ~Messages!WellFormedRequest(a.fields)
                    \/ BodyError(a.fields)

\* An answer reaches the client once, as the service gave it, within the table
\* size that the client last asked for (hpack.rs:560, conn.rs:2060).
AnswersArriveAsSent == \A s \in Streams : heard[s] \notin {"garbled", "answered again"}

\* A field the sender marked never to be indexed is in no table, on either
\* side of either direction (hpack.rs:583).
Secrets ==
    {Table!Entry(f) : f \in {g \in UNION {ToSet(fields) : fields \in UNION ToSet(Asks) \cup Answers \cup Trailers} :
                                g.sensitive}}

SecretsNeverStored ==
    \A t \in {cenc.table, px.dec, px.enc.table, cdec} : ToSet(t.entries) \cap Secrets = {}

\* The connection ends if, and only if, the client broke a rule of the
\* connection: not for what is wrong with one stream (conn.rs:1546).
FailsForCauseOnly == ~px.alive <=> cause

\* What the proxy writes fits the frame size the client accepts (frame.rs:626).
FramesFit == \A i \in DOMAIN down : Len(down[i].block) <= PeerFrame

=============================================================================
