------------------------------ MODULE FrameCodec ------------------------------
(***************************************************************************)
(* Framing (core/src/frame.rs): which octets are a frame, and of what.     *)
(*                                                                         *)
(* A raw frame is what its header and payload say: kind, length, flags (as *)
(* the bits that are set), stream, and the payload octets that decoding    *)
(* looks at: `pad`, the first one, and `depends`, the stream dependency.   *)
(* Decoding yields a record with the outcome, the error code, and what is  *)
(* left of the payload once padding and priority fields are stripped.      *)
(***************************************************************************)
EXTENDS Integers, Sequences, FiniteSets

CONSTANT MaxFrame       (* MAX_FRAME_SIZE this endpoint advertised. *)

\* The flag bits: one bit has two names.
EndStream  == 1
Ack        == 1
EndHeaders == 4
Padded     == 8
Priority   == 32

Modelled == {"DATA", "HEADERS", "RST_STREAM", "SETTINGS", "PING", "GOAWAY",
             "WINDOW_UPDATE", "CONTINUATION"}

-----------------------------------------------------------------------------
(* FrameError::code *)

Size     == "FRAME_SIZE_ERROR"
Protocol == "PROTOCOL_ERROR"

Fails(code)  == [outcome |-> "error", code |-> code, length |-> 0]
Ignores      == [outcome |-> "ignored", code |-> "", length |-> 0]
Gives(n)     == [outcome |-> "frame", code |-> "", length |-> n]

\* Mutant: padding may fill the payload but for its length octet, and one more.
StripPaddingOffByOne(f) ==
    IF Padded \notin f.flags THEN Gives(f.length)
    ELSE IF f.length = 0 THEN Fails(Size)
    ELSE IF f.pad > f.length THEN Fails(Protocol)
    ELSE Gives(f.length - 1 - f.pad)

\* What is left of a payload without its padding, or an error.
StripPadding(f) ==
    IF Padded \notin f.flags THEN Gives(f.length)
    ELSE IF f.length = 0 THEN Fails(Size)
    ELSE IF f.pad >= f.length THEN Fails(Protocol)
    ELSE Gives(f.length - 1 - f.pad)

DecodeData(f) == IF f.stream = 0 THEN Fails(Protocol) ELSE StripPadding(f)

DecodeHeaders(f) ==
    LET left == StripPadding(f)
    IN  IF f.stream = 0 THEN Fails(Protocol)
        ELSE IF left.outcome = "error" \/ Priority \notin f.flags THEN left
        ELSE IF left.length < 5 THEN Fails(Size)
        ELSE IF f.depends = f.stream THEN Fails(Protocol)
        ELSE Gives(left.length - 5)

DecodeSettings(f) ==
    IF f.stream # 0 THEN Fails(Protocol)
    ELSE IF Ack \in f.flags THEN IF f.length = 0 THEN Gives(0) ELSE Fails(Size)
    ELSE IF f.length % 6 = 0 THEN Gives(f.length) ELSE Fails(Size)

DecodeRstStream(f) ==
    IF f.stream = 0 THEN Fails(Protocol) ELSE IF f.length = 4 THEN Gives(4) ELSE Fails(Size)

DecodePing(f) ==
    IF f.stream # 0 THEN Fails(Protocol) ELSE IF f.length = 8 THEN Gives(8) ELSE Fails(Size)

DecodeGoAway(f) ==
    IF f.stream # 0 THEN Fails(Protocol) ELSE IF f.length >= 8 THEN Gives(f.length) ELSE Fails(Size)

DecodeWindowUpdate(f) == IF f.length = 4 THEN Gives(4) ELSE Fails(Size)

DecodeContinuation(f) == IF f.stream = 0 THEN Fails(Protocol) ELSE Gives(f.length)

\* PRIORITY is checked although it is then discarded.
DecodePriority(f) ==
    IF f.stream = 0 THEN Fails(Protocol)
    ELSE IF f.length # 5 THEN Fails(Size)
    ELSE IF f.depends = f.stream THEN Fails(Protocol)
    ELSE Ignores

Decode(f) ==
    CASE f.length > MaxFrame        -> Fails(Size)
      [] OTHER ->
    CASE f.kind = "DATA"            -> DecodeData(f)
      [] f.kind = "HEADERS"         -> DecodeHeaders(f)
      [] f.kind = "RST_STREAM"      -> DecodeRstStream(f)
      [] f.kind = "SETTINGS"        -> DecodeSettings(f)
      [] f.kind = "PING"            -> DecodePing(f)
      [] f.kind = "GOAWAY"          -> DecodeGoAway(f)
      [] f.kind = "WINDOW_UPDATE"   -> DecodeWindowUpdate(f)
      [] f.kind = "CONTINUATION"    -> DecodeContinuation(f)
      [] f.kind = "PUSH_PROMISE"    -> Fails(Protocol)
      [] f.kind = "PRIORITY"        -> DecodePriority(f)
      [] f.kind = "UNKNOWN"         -> Ignores

-----------------------------------------------------------------------------
(* Frame::write: a frame is [kind, stream, length, ack, endStream,         *)
(* endHeaders]; neither padding nor priority is ever written.              *)

ControlKinds == {"SETTINGS", "PING", "GOAWAY"}

Bits(f) ==
    {b \in {EndStream, EndHeaders} :
        \/ b = EndStream /\ f.kind \in {"DATA", "HEADERS"} /\ f.endStream
        \/ b = Ack /\ f.kind \in {"SETTINGS", "PING"} /\ f.ack
        \/ b = EndHeaders /\ f.kind \in {"HEADERS", "CONTINUATION"} /\ f.endHeaders}

Write(f) ==
    [kind |-> f.kind, length |-> f.length, flags |-> Bits(f), pad |-> 0, depends |-> 0,
     stream |-> IF f.kind \in ControlKinds THEN 0 ELSE f.stream]

-----------------------------------------------------------------------------
(* RFC 9113 section 6, as the rules a frame can break and the code each    *)
(* is reported with: the reference `Decode` is checked against.  In one    *)
(* rule it follows the code: HEADERS whose padding leaves too few octets   *)
(* for the priority fields have the wrong size, which section 6.2 calls a  *)
(* PROTOCOL_ERROR.                                                         *)

\* What padding takes of a payload that can hold its length octet.
Padding(f) ==
    IF Padded \in f.flags /\ f.kind \in {"DATA", "HEADERS"} /\ f.length > 0 THEN f.pad + 1 ELSE 0

WrongSize(f) ==
    \/ f.length > MaxFrame
    \/ f.kind \in {"DATA", "HEADERS"} /\ Padded \in f.flags /\ f.length = 0
    \/ f.kind = "HEADERS" /\ Priority \in f.flags /\ f.length - Padding(f) \in 0..4
    \/ f.kind = "PRIORITY" /\ f.length # 5
    \/ f.kind = "RST_STREAM" /\ f.length # 4
    \/ f.kind = "SETTINGS" /\ (f.length % 6 # 0 \/ (Ack \in f.flags /\ f.length # 0))
    \/ f.kind = "PING" /\ f.length # 8
    \/ f.kind = "GOAWAY" /\ f.length < 8
    \/ f.kind = "WINDOW_UPDATE" /\ f.length # 4

WrongPlace(f) ==
    \/ f.kind \in {"DATA", "HEADERS", "RST_STREAM", "CONTINUATION", "PRIORITY"} /\ f.stream = 0
    \/ f.kind \in ControlKinds /\ f.stream # 0
    \/ Padding(f) > f.length
    \/ f.kind = "HEADERS" /\ Priority \in f.flags /\ f.depends = f.stream
    \/ f.kind = "PRIORITY" /\ f.depends = f.stream
    \/ f.kind = "PUSH_PROMISE"

\* An error is reported exactly when a rule is broken, with the code of a rule
\* that is.
JudgedRight(f) ==
    LET d == Decode(f)
    IN  /\ d.outcome = "error" <=> (WrongSize(f) \/ WrongPlace(f))
        /\ d.code = Size     => WrongSize(f)
        /\ d.code = Protocol => WrongPlace(f)

\* Padding, its length octet and the priority fields are all that is taken away.
StrippedRight(f) ==
    Decode(f).outcome = "frame" =>
        Decode(f).length = f.length - Padding(f)
            - (IF f.kind = "HEADERS" /\ Priority \in f.flags THEN 5 ELSE 0)

=============================================================================
