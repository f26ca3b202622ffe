------------------------------ MODULE Sanitize ------------------------------
(***************************************************************************)
(* Sanitize and Locate (internal/application/rulegen/sanitizer.go): the    *)
(* part of a page that goes to a model, and on which the rules it proposes *)
(* are executed.  A body is a sequence of tokens, one unit of size each:   *)
(* structural anchors, "C" a currency anchor, "J" a script, style or head  *)
(* block, "x" anything else.  Offsets count from 0, as in the code.        *)
(***************************************************************************)
EXTENDS Integers, Sequences, FiniteSets, Sorting

CONSTANTS
    Structural,     \* the distinct structural anchors of a source
    MaxHits,        \* occurrences of an anchor that are examined, 1000 in the code
    Window,         \* locateWindowBytes
    Radius,         \* defaultCoLocationBytes
    Cap,            \* maxBodyBytesForLLM
    MaxRaw,         \* maxRawBodyBytes
    MaxBody         \* bound: length of the bodies the run enumerates

ASSUME SanitizeAssumption ==
    /\ Structural \cap {"C", "J", "x"} = {} /\ MaxHits \in Nat
    /\ Window \in Nat /\ Radius \in Nat /\ Cap \in Nat /\ MaxRaw \in Nat
    /\ Radius >= 1 /\ Radius <= Window \div 2 /\ Window <= Cap /\ MaxBody \in Nat

Token == Structural \cup {"C", "J", "x"}
Bodies == UNION {[1..n -> Token] : n \in 0..MaxBody}

Low(a) == IF a < 0 THEN 0 ELSE a
High(b, body) == IF b > Len(body) THEN Len(body) ELSE b

\* body[a:b] clamped to the body, with the offsets of a Go slice.
Slice(body, a, b) == SubSeq(body, Low(a) + 1, High(b, body))
Holds(body, token) == \E i \in DOMAIN body : body[i] = token

HasCurrencyWithin(body, centre) ==
    Holds(Slice(body, centre - Radius, centre + Radius), "C")

Hits(body, token) == {i \in 0..(Len(body) - 1) : body[i + 1] = token}

\* The first occurrences of an anchor, as many as the safety cap lets through.
Examined(body, anchor) ==
    {i \in Hits(body, anchor) :
        Cardinality({j \in Hits(body, anchor) : j < i}) < MaxHits}

\* Where the page has rates: a structural anchor with a currency near it.
Tables(body) ==
    {i \in UNION {Hits(body, a) : a \in Structural} : HasCurrencyWithin(body, i)}

\* Those that Locate finds.
Qualifying(body) ==
    {i \in UNION {Examined(body, a) : a \in Structural} : HasCurrencyWithin(body, i)}

Smallest(set) == CHOOSE i \in set : \A j \in set : i <= j

\* mutant of WindowAround: the window begins at the anchor
WindowFrom(body, centre) == Slice(body, centre, centre + Window \div 2)

WindowAround(body, centre) ==
    Slice(body, centre - Window \div 2, centre + Window \div 2)

\* The window around the first examined structural anchor with a currency near
\* it, else around the first currency, else the whole body.
Locate(body) ==
    IF Qualifying(body) # {} THEN WindowAround(body, Smallest(Qualifying(body)))
    ELSE IF Hits(body, "C") # {} THEN WindowAround(body, Smallest(Hits(body, "C")))
    ELSE body

Stripped(body) == Picked(body, {i \in DOMAIN body : body[i] # "J"})
TooLarge(body) == Len(body) > MaxRaw
\* The part of a stripped page that is sent.
Shown(page) == Slice(Locate(page), 0, Cap)
Sanitized(body) == Shown(Stripped(body))

-----------------------------------------------------------------------------
\* What a model needs of a page: when a structural anchor of the stripped page has
\* a currency near it, and is among the first MaxHits of its text, the window has
\* such an anchor with its currency; when the page names the currency at all, so
\* does the window; and the window never exceeds the cap.  A table that stands
\* behind more anchors than that may be lost: the window is then around the first
\* currency.
KeepsTable(page, sent) ==
    /\ Len(sent) <= Cap
    /\ Hits(page, "C") # {} => Hits(sent, "C") # {}
    /\ Qualifying(page) # {} => Tables(sent) # {}

WindowRight(body) == ~TooLarge(body) => KeepsTable(Stripped(body), Sanitized(body))
=============================================================================
