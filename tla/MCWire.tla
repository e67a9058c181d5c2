-------------------------------- MODULE MCWire --------------------------------
(***************************************************************************)
(* Two requests with their answers over one connection, tables that hold   *)
(* two short entries or one long one, and a client that may break a rule.  *)
(***************************************************************************)
EXTENDS Wire

F(name, value)      == [name |-> name, value |-> value, sensitive |-> FALSE]
Secret(name, value) == [name |-> name, value |-> value, sensitive |-> TRUE]

Method == F(":method", "GET")
Scheme == F(":scheme", "https")
Path   == F(":path", "/")
Base   == <<Method, Scheme, Path>>

E(name, value) == [name |-> name, value |-> value]

MCStatic == <<E(":method", "GET"), E(":scheme", "https"), E(":path", "/"), E(":status", "200")>>

\* A long entry fills the table by itself.
MCCost(f) == IF f.value = "long" THEN 2 ELSE 1

Plain1    == Base \o <<F("a", "1")>>
Private   == Base \o <<F("b", "1"), Secret("cookie", "1")>>
Oversized == Base \o <<F("a", "long"), F("b", "1")>>
Promising == Base \o <<F("content-length", "1")>>
Malformed == <<Method, F("a", "1"), Scheme, Path>>

MCAsks == <<{Plain1, Private, Oversized, Promising}, {Plain1, Malformed}>>

MCAnswers  == {<<F(":status", "200"), F("a", "1")>>, <<F(":status", "200"), Secret("cookie", "1")>>}
MCTrailers == {<<F("t", "1")>>, <<Method>>}
\* Trailers larger than MaxList.
LongTrailers == {<<F("t", "long"), F("u", "long"), F("v", "long")>>}
MCCorrupt  == {<<Table!SizeUpdate(TableMax + 1)>>, <<Table!Indexed(9)>>}

P(id, value) == [id |-> id, value |-> value]
MCParams == {<<P("HEADER_TABLE_SIZE", 1)>>,
             <<P("HEADER_TABLE_SIZE", 0), P("HEADER_TABLE_SIZE", 2)>>,
             <<P("ENABLE_PUSH", 2)>>,
             <<P("MAX_FRAME_SIZE", Max(FrameSizes)), P("MAX_FRAME_SIZE", Max(FrameSizes) + 1)>>}

R(kind, length, stream, flags) ==
    [kind |-> kind, length |-> length, flags |-> flags, stream |-> stream, pad |-> 0, depends |-> 0]
MCStray == {R("PING", 8, 0, {}), R("PRIORITY", 5, 1, {}),
            R("CONTINUATION", 0, 2, {Frames!EndHeaders}), R("SETTINGS", 5, 0, {})}

-----------------------------------------------------------------------------
(* The operators on their own, against the rules of the RFC *)

\* Only at the start: what follows does not depend on the state.
Fresh == Init

Flags == SUBSET {Frames!EndStream, Frames!EndHeaders, Frames!Padded, Frames!Priority}

AllFrames ==
    [kind : Frames!Modelled \cup {"PUSH_PROMISE", "PRIORITY", "UNKNOWN"}, length : 0..13,
     flags : Flags, stream : 0..1, pad : {0, 1, 3, 5, 9, 10}, depends : 0..1]

\* Digits of two bits, values of five: as in the code, the last octet's digit
\* is wider than what is left of the value.
Ints == INSTANCE HpackInteger WITH Base <- 4, Top <- 31, MaxOctets <- 3

Octets == [digit : 0..3, more : BOOLEAN]

\* Every frame is judged by the rules of RFC 9113 section 6 and stripped of
\* padding and priority only (frame.rs:368); and an HPACK integer is read as
\* what it stands for, or as an error, up to the last value (hpack.rs:158).
OctetsJudged ==
    Fresh =>
        /\ \A f \in AllFrames : Frames!JudgedRight(f) /\ Frames!StrippedRight(f)
        /\ \A mask \in {1, 3} :
            /\ \A v \in 0..31, behind \in {<<>>} \cup [1..1 -> Octets] :
                    Ints!ComesThrough(v, mask, behind)
            /\ \A w \in UNION {[1..n -> Octets] : n \in 0..4} : Ints!ReadRight(mask, w)

Names  == {":method", ":path", ":status", ":other", "a", "Upper", "connection", "te"}
Shorts == {[name |-> n, value |-> v] : n \in Names, v \in {"", "trailers"}}

\* Every short field section is judged by the rules of RFC 9113 section 8, as
\* it stands and after two or three of the pseudo-headers, and a request is
\* forwarded whole (service.rs:79).
MessagesJudged ==
    Fresh =>
        \A h \in UNION {[1..n -> Shorts] : n \in 0..3} :
            /\ Messages!IsResponse(h) <=> Messages!WellFormedResponse(h)
            /\ LET r == <<Scheme, [name |-> ":method", value |-> "GET"]>> \o h
               IN  Messages!IsRequest(r) <=> Messages!WellFormedRequest(r)
            /\ LET r == <<Scheme>> \o h
               IN  Messages!IsRequest(r) <=> Messages!WellFormedRequest(r)
            /\ LET r == <<E(":scheme", "https"), E(":path", "/")>> \o h
               IN  Messages!IsRequest(r) => Messages!ForwardedWhole(r)

MCLimits == [resetBurst |-> 3, resetRate |-> 1, unansweredBurst |-> 2, unansweredRate |-> 1,
             controlBurst |-> 2, controlRate |-> 2, maxEmpty |-> 1, observeOnly |-> FALSE]

Meters == INSTANCE Guard WITH Limits <- MCLimits, Second <- 3

\* Traces of resets and control frames in bursts, and shorter ones of anything.
Events == [kind : {"answered", "unanswered", "control", "empty", "data"}, gap : {0, 1}]
Walks  == [1..5 -> [kind : Meters!Resets \cup {"control"}, gap : {0, 2}]] \cup [1..4 -> Events]

Trace(w) == [i \in DOMAIN w |->
                [kind |-> w[i].kind, at |-> FoldLeft(LAMBDA t, e : t + e.gap, 0, SubSeq(w, 1, i))]]

\* The guard trips when, and only when, some stretch of what the peer sent
\* exceeds a limit, and the peaks it reports were reached (guard.rs:230).
TripsJudged ==
    Fresh => \A w \in Walks : LET t == Trace(w) IN
                Meters!TripsRightly(t) /\ Meters!PeakReached(t, t[Len(t)].at)

=============================================================================
