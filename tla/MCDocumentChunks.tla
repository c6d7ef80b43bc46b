-------------------------- MODULE MCDocumentChunks --------------------------
(***************************************************************************)
(* All texts of up to four lines made of eight kinds: headings with and    *)
(* without a title, lines that just fail to be one, text that together     *)
(* with another such line just fits or just does not fit into a section,   *)
(* a line longer than a section, a blank one.                              *)
(***************************************************************************)
EXTENDS DocumentChunks

CONSTANTS c1, c2, c3, MaxLines

Kind(lead, body, trail, mark, words, title) ==
    [lead |-> lead, body |-> body, trail |-> trail, mark |-> mark, words |-> words, title |-> title]

Kinds ==
    { Kind(0, 120, 0, "hash", 2, "a"),
      Kind(0, 1, 0, "hash", 1, NoTitle),
      Kind(1, 20, 0, "colon", 8, "b"),
      Kind(0, 121, 0, "numbered", 3, "a"),
      Kind(0, 1749, 1, "colon", 9, "b"),
      Kind(0, 1749, 0, "none", 1, NoTitle),
      Kind(0, 3501, 0, "none", 1, NoTitle),
      Kind(2, 0, 0, "none", 0, NoTitle) }

\* Where each line of a sequence of kinds stands.
Laid(ks) ==
    LET at[i \in 1..Len(ks)] ==
            IF i = 1 THEN 0
            ELSE at[i - 1] + ks[i - 1].lead + ks[i - 1].body + ks[i - 1].trail + 1
    IN [i \in 1..Len(ks) |->
            [at |-> at[i], from |-> at[i] + ks[i].lead, to |-> at[i] + ks[i].lead + ks[i].body,
             end |-> at[i] + ks[i].lead + ks[i].body + ks[i].trail,
             mark |-> ks[i].mark, words |-> ks[i].words, title |-> ks[i].title]]

TextsOfKinds == {Laid(ks) : ks \in UNION {[1..n -> Kinds] : n \in 1..MaxLines}}
=============================================================================
