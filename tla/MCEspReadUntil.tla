---------------------------- MODULE MCEspReadUntil ----------------------------
(* EspReadUntil over a small alphabet: nl is the line end, cO and cE between*)
(* line ends are the OK and ERROR tags, cC cQ opens a string, cQ closes it.*)
EXTENDS EspReadUntil

CONSTANTS nl, cO, cE, cC, cQ, cA, cB

TheTags == << <<nl, cO, nl>>, <<nl, cE, nl>> >>
TheStart == <<cC, cQ>>
TheEnd == <<cQ, nl>>

WithText(t) == TheStart \o t \o TheEnd \o TheTags[1]

ShortTexts == {<<>>, <<cA>>, <<cB, cA>>, <<cA, cB, cA>>}
LongTexts == ShortTexts \cup {<<cA, cA, cB, cB>>, <<cA, cB, cA, cB, cA>>}

(* Answers without a string: the bare tags, a tag after a line, a tag that *)
(* never comes, a string that stops, and one that a line end cuts short.   *)
Plain == {<<nl, cO, nl>>, <<nl, cE, nl>>, <<cA, nl, cO, nl>>,
          <<cA, cB, nl, cO, nl>>, <<cA, cB>>, <<cC, cQ, cA>>,
          <<cA, cB, cA, cB, cC, cQ, nl, cO, nl>>}

LongReplies == {WithText(t) : t \in LongTexts} \cup Plain
=============================================================================
