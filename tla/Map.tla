-------------------------------- MODULE Map ---------------------------------
(***************************************************************************)
(* What a dict promises its owner: a finite map from keys to values.       *)
(***************************************************************************)
EXTENDS Functions

CONSTANTS Keys, Vals, NoVal

VARIABLES
    content,    \* the map
    answer      \* what the last lookup returned

Init == content = << >> /\ answer = NoVal

Set(k, v) ==
    /\ content' = [x \in DOMAIN content \cup {k} |-> IF x = k THEN v ELSE content[x]]
    /\ UNCHANGED answer

Get(k) ==
    /\ answer' = IF k \in DOMAIN content THEN content[k] ELSE NoVal
    /\ UNCHANGED content

Has(k) ==
    /\ answer' = (k \in DOMAIN content)
    /\ UNCHANGED content

Del(k) ==
    /\ content' = Restrict(content, DOMAIN content \ {k})
    /\ UNCHANGED answer

\* The last owner lets go.
Drop == content' = << >> /\ UNCHANGED answer

Next ==
    \/ \E k \in Keys : Get(k) \/ Has(k) \/ Del(k) \/ \E v \in Vals : Set(k, v)
    \/ Drop

Spec == Init /\ [][Next]_<<content, answer>>

=============================================================================
