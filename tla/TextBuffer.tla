----------------------------- MODULE TextBuffer -----------------------------
(***************************************************************************)
(* What BlockBuffer promises its callers: a text that grows, shrinks and   *)
(* is overwritten as a whole, with no blocks and no memory.  A call that   *)
(* would make the text longer answers "full" only when the new text is     *)
(* longer than the limit, and "nomem" when memory cannot be had; it then   *)
(* adds nothing.                                                           *)
(***************************************************************************)
EXTENDS Integers, Sequences

CONSTANTS Buffers, Bytes, Zero, Strings, Counts, Limits

VARIABLES
    text,     \* [Buffers -> Seq(Bytes)]
    limit,    \* [Buffers -> Limits]
    answer    \* of the last call

Init ==
    /\ text = [b \in Buffers |-> <<>>]
    /\ limit \in [Buffers -> Limits]
    /\ answer = "yes"

Becomes(b, t) == text' = [text EXCEPT ![b] = t]

Start(b, n) == SubSeq(text[b], 1, n)
Rest(b, n) == SubSeq(text[b], n + 1, Len(text[b]))

(* s is put after the first n bytes, which replaces what follows them. *)
Extend(b, n, s) ==
    \/ Becomes(b, Start(b, n) \o s) /\ answer' = "yes"
    \/ Becomes(b, Start(b, n)) /\ answer' = "nomem"
    \/ /\ n + Len(s) > limit[b]
       /\ Becomes(b, Start(b, n)) /\ answer' = "full"

Add(b, s) == Extend(b, Len(text[b]), s) /\ UNCHANGED limit

Resize(b, n) ==
    /\ \/ /\ n <= Len(text[b])
          /\ Becomes(b, Start(b, n)) /\ answer' = "yes"
       \/ /\ n > Len(text[b])
          /\ Extend(b, Len(text[b]), [i \in 1..(n - Len(text[b])) |-> Zero])
    /\ UNCHANGED limit

(* A text replaced up to its end may become longer, or shorter on failure.  *)
Replace(b, pos, s) ==
    /\ IF pos + Len(s) < Len(text[b])
       THEN /\ Becomes(b, Start(b, pos) \o s \o Rest(b, pos + Len(s)))
            /\ answer' = "yes"
       ELSE IF pos < Len(text[b]) THEN Extend(b, pos, s)
       ELSE Extend(b, Len(text[b]), s)
    /\ UNCHANGED limit

Erase(b, pos, n) ==
    /\ pos <= Len(text[b])
    /\ Becomes(b, Start(b, pos) \o Rest(b, pos + n))
    /\ answer' = "yes"
    /\ UNCHANGED limit

Reserve(b) ==
    /\ answer' \in {"yes", "full", "nomem"}
    /\ UNCHANGED <<text, limit>>

SetLimit(b) ==
    /\ \E k \in Limits : limit' = [limit EXCEPT ![b] = k]
    /\ UNCHANGED <<text, answer>>

Renew(b) ==
    /\ Becomes(b, <<>>)
    /\ \E k \in Limits : limit' = [limit EXCEPT ![b] = k]
    /\ answer' = "yes"

Next ==
    \E b \in Buffers :
       \/ \E s \in Strings : Add(b, s) \/ \E pos \in Counts : Replace(b, pos, s)
       \/ \E n \in Counts : Resize(b, n) \/ \E pos \in Counts : Erase(b, pos, n)
       \/ Reserve(b) \/ SetLimit(b) \/ Renew(b)

Spec == Init /\ [][Next]_<<text, limit, answer>>
=============================================================================
