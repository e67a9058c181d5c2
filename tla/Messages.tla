------------------------------- MODULE Messages -------------------------------
(***************************************************************************)
(* What makes a field section a request, a response or a trailer section   *)
(* (core/src/service.rs, RFC 9113 section 8).  A field is [name, value];   *)
(* of a name only its class matters: a pseudo-header by its own name, the  *)
(* names that are forbidden, "te", and the others.                         *)
(***************************************************************************)
EXTENDS Integers, Sequences, SequencesExt

Pseudo  == {":method", ":scheme", ":authority", ":path", ":status", ":other"}
Request == {":method", ":scheme", ":authority", ":path"}

\* An empty name, or one with an upper-case letter.
Misspelt == {"", "Upper"}

\* The five fields that speak of a connection.
ConnectionSpecific == {"connection", "keep-alive", "proxy-connection", "transfer-encoding",
                       "upgrade"}

Forbidden == Misspelt \cup ConnectionSpecific

-----------------------------------------------------------------------------
(* RequestHead::from_headers: one pass, which stops at the first fault *)

Start == [ok |-> TRUE, regular |-> FALSE, slots |-> [n \in {} |-> ""], fields |-> <<>>]

Fault(s) == [s EXCEPT !.ok = FALSE]

RequestStep(s, f) ==
    CASE ~s.ok -> s
      [] s.ok /\ f.name \in Pseudo ->
            IF s.regular \/ f.name \notin Request \/ f.name \in DOMAIN s.slots
            THEN Fault(s)
            ELSE [s EXCEPT !.slots = [n \in DOMAIN @ \cup {f.name} |->
                                        IF n = f.name THEN f.value ELSE @[n]]]
      [] s.ok /\ f.name \notin Pseudo ->
            IF f.name \in Forbidden \/ (f.name = "te" /\ f.value # "trailers")
            THEN Fault(s)
            ELSE [s EXCEPT !.regular = TRUE, !.fields = Append(@, f)]

Scan(headers) == FoldLeft(LAMBDA s, f : RequestStep(s, f), Start, headers)

IsRequest(headers) ==
    LET s == Scan(headers)
    IN  /\ s.ok
        /\ {":method", ":scheme", ":path"} \subseteq DOMAIN s.slots
        /\ s.slots[":path"] # ""

\* RequestHead::to_headers of what from_headers accepted: pseudo-headers first,
\* in a fixed order, then the fields as they came.
Slot(s, n) == IF n \in DOMAIN s.slots THEN <<[name |-> n, value |-> s.slots[n]]>> ELSE <<>>

ToHeaders(headers) ==
    LET s == Scan(headers)
    IN  Slot(s, ":method") \o Slot(s, ":scheme") \o Slot(s, ":authority") \o Slot(s, ":path")
        \o s.fields

\* RequestHead::content_length: of several, the first one counts.
Length(headers) ==
    LET at == {i \in DOMAIN headers : headers[i].name = "content-length"}
    IN  IF at = {} THEN "none" ELSE headers[CHOOSE i \in at : \A j \in at : i <= j].value

-----------------------------------------------------------------------------
(* validate_trailers, ResponseHead::from_headers *)

AreTrailers(headers) ==
    \A i \in DOMAIN headers : headers[i].name \notin Pseudo \cup Forbidden

\* Mutant: a status after the regular fields is let through.
ResponseStepLate(s, f) ==
    CASE ~s.ok -> s
      [] s.ok /\ f.name \in Pseudo ->
            IF f.name # ":status" \/ f.name \in DOMAIN s.slots \/ f.value = ""
            THEN Fault(s)
            ELSE [s EXCEPT !.slots = [n \in {f.name} |-> f.value]]
      [] s.ok /\ f.name \notin Pseudo ->
            IF f.name \in Forbidden THEN Fault(s)
            ELSE [s EXCEPT !.regular = TRUE, !.fields = Append(@, f)]

ResponseStep(s, f) ==
    CASE ~s.ok -> s
      [] s.ok /\ f.name \in Pseudo ->
            IF s.regular \/ f.name # ":status" \/ f.name \in DOMAIN s.slots \/ f.value = ""
            THEN Fault(s)
            ELSE [s EXCEPT !.slots = [n \in {f.name} |-> f.value]]
      [] s.ok /\ f.name \notin Pseudo ->
            IF f.name \in Forbidden THEN Fault(s)
            ELSE [s EXCEPT !.regular = TRUE, !.fields = Append(@, f)]

IsResponse(headers) ==
    LET s == FoldLeft(LAMBDA a, f : ResponseStep(a, f), Start, headers)
    IN  s.ok /\ ":status" \in DOMAIN s.slots

-----------------------------------------------------------------------------
(* The same in the words of RFC 9113, 8.2 and 8.3: the reference *)

Named(headers, n) == {i \in DOMAIN headers : headers[i].name = n}

Once(headers, n) == \E i \in Named(headers, n) : Named(headers, n) = {i}

PseudoFirst(headers, allowed) ==
    \A i \in DOMAIN headers : headers[i].name \in Pseudo =>
        /\ headers[i].name \in allowed
        /\ Once(headers, headers[i].name)
        /\ \A j \in 1..i : headers[j].name \in Pseudo

WellNamed(headers) == \A i \in DOMAIN headers : headers[i].name \notin Forbidden

WellFormedRequest(headers) ==
    /\ PseudoFirst(headers, Request)
    /\ WellNamed(headers)
    /\ \A n \in {":method", ":scheme", ":path"} : Once(headers, n)
    /\ \A i \in DOMAIN headers :
        /\ headers[i].name = ":path" => headers[i].value # ""
        /\ headers[i].name = "te" => headers[i].value = "trailers"

WellFormedResponse(headers) ==
    /\ PseudoFirst(headers, {":status"})
    /\ WellNamed(headers)
    /\ Once(headers, ":status")
    /\ \A i \in Named(headers, ":status") : headers[i].value # ""

\* What is forwarded of a request is a request again, the same fields with the
\* regular ones in their order.
ForwardedWhole(headers) ==
    LET out == ToHeaders(headers)
        Regular(h) == SelectSeq(h, LAMBDA f : f.name \notin Pseudo)
    IN  /\ IsRequest(out) /\ Len(out) = Len(headers) /\ ToSet(out) = ToSet(headers)
        /\ Regular(out) = Regular(headers)

=============================================================================
