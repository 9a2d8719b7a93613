----------------------------- MODULE LossyText -----------------------------
(***************************************************************************)
(* Body::read_to_string_lossy(): from_utf8_lossy_replace() (from_utf8.rs)  *)
(* goes over the bytes of a body, and replaces in place what is no UTF-8.  *)
(*                                                                         *)
(* A byte is ASCII ("a"), the start of a character of two or three bytes   *)
(* ("2", "3"), a byte that continues one ("c"), one that UTF-8 never has   *)
(* ("x"), or the replacement, which is ASCII ("?").                        *)
(***************************************************************************)
EXTENDS Integers, Sequences

CONSTANTS MaxBody  \* bound: bytes of a body

ASSUME LossyAssumption == MaxBody \in Nat

VARIABLES
    input,   \* the bytes as they were read
    buf,     \* buf
    start,   \* start_from, counted from 1
    rounds,  \* history: rounds of the loop
    step     \* "loop", "done", "panic"

lossyVars == <<input, buf, start, rounds, step>>
-----------------------------------------------------------------------------
Byte == {"a", "2", "3", "c", "x", "?"}

BytesOf(first) == CASE first = "2" -> 2 [] first = "3" -> 3 [] OTHER -> 1

\* The bytes from place k on that belong to the character that begins there.
Belonging(bytes, k) ==
    {i \in k .. Len(bytes) :
        i < k + BytesOf(bytes[k]) /\ \A j \in k + 1 .. i : bytes[j] = "c"}

\* A whole character is at place k.
WholeAt(bytes, k) ==
    /\ bytes[k] \notin {"c", "x"}
    /\ \A i \in k + 1 .. k + BytesOf(bytes[k]) - 1 : i <= Len(bytes) /\ bytes[i] = "c"

\* std::str::from_utf8() of what is left: the place of the first byte that is in
\* no whole character, or the one after the end.
InCharacter(i) == \E k \in start .. i : WholeAt(buf, k) /\ i < k + BytesOf(buf[k])

ErrorPlace ==
    CHOOSE k \in start .. Len(buf) + 1 :
        /\ k > Len(buf) \/ ~InCharacter(k)
        /\ \A i \in start .. k - 1 : InCharacter(i)

\* Utf8Error::error_len(): how many bytes are bad, 0 for an unexpected end.
ErrorLen(place) ==
    IF buf[place] \in {"c", "x"} THEN 1
    ELSE IF Len(buf) \in Belonging(buf, place) THEN 0
    ELSE CHOOSE n \in 1 .. 3 : Belonging(buf, place) = place .. place + n - 1

LossyInit ==
    /\ input \in UNION {[1 .. n -> Byte \ {"?"}] : n \in 0 .. MaxBody}
    /\ buf = input /\ start = 1 /\ rounds = 0 /\ step = "loop"

\* Ok(_): all that is left is UTF-8.
TextIsValid ==
    /\ step = "loop"
    /\ ErrorPlace > Len(buf)
    /\ step' = "done"
    /\ UNCHANGED <<input, buf, start, rounds>>

\* As if only the first byte of an error were replaced.
BadBytesFirst(place) == {place}

BadBytes(place) == place .. place + ErrorLen(place) - 1

\* Bytes that are no UTF-8, before the end.
ReplaceBytes ==
    /\ step = "loop" /\ rounds <= MaxBody
    /\ LET place == ErrorPlace
       IN  /\ place <= Len(buf)
           /\ ErrorLen(place) > 0
           /\ buf' = [i \in DOMAIN buf |-> IF i \in BadBytes(place) THEN "?" ELSE buf[i]]
           /\ start' = place + ErrorLen(place)
    /\ rounds' = rounds + 1
    /\ UNCHANGED <<input, step>>

\* The end, inside a character: the byte before it is replaced, if there is one,
\* and the next round begins with the same bytes.
ReplaceAtEnd ==
    /\ step = "loop" /\ rounds <= MaxBody
    /\ LET place == ErrorPlace
       IN  /\ place <= Len(buf)
           /\ ErrorLen(place) = 0
           /\ start' = place
           /\ IF place = 1 THEN step' = "panic" /\ UNCHANGED buf
              ELSE buf' = [buf EXCEPT ![place - 1] = "?"] /\ UNCHANGED step
    /\ rounds' = rounds + 1
    /\ UNCHANGED input

LossyNext == TextIsValid \/ ReplaceBytes \/ ReplaceAtEnd

LossySpec == LossyInit /\ [][LossyNext]_lossyVars
-----------------------------------------------------------------------------
\* The bytes of characters that are whole, wherever reading them began.
InWhole(bytes, i) ==
    \E k \in 1 .. i : WholeAt(bytes, k) /\ i < k + BytesOf(bytes[k])

EndsInside ==
    \E k \in DOMAIN input :
        input[k] \in {"2", "3"} /\ ~WholeAt(input, k) /\ Len(input) \in Belonging(input, k)

\* Unless the body ends inside a character, the loop ends, each byte of a whole
\* character stays and each other byte is a question mark, "Invalid utf-8 will
\* be replaced by a question mark" (body.rs:687, from_utf8.rs:9-34).
InvalidReplaced ==
    ~EndsInside =>
        /\ step # "panic"
        /\ rounds <= Len(input)
        /\ step = "done" =>
              buf = [i \in DOMAIN input |-> IF InWhole(input, i) THEN input[i] ELSE "?"]
=============================================================================
