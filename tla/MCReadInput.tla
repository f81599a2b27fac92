---------------------------- MODULE MCReadInput -----------------------------
(***************************************************************************)
(* Small instances of ReadInput for TLC.                                   *)
(***************************************************************************)
EXTENDS ReadInput

\* "a:1|c", "ab:1|c" and "a:1|c|@1".
Short == <<"name", "colon", "digit", "pipe", "type">>
Long == <<"name", "name", "colon", "digit", "pipe", "type">>
Sampled == Short \o <<"pipe", "at", "digit">>
Junk == <<"name">>

\* Two lines, each with its newline; the second may be too short or empty.
MixedTexts ==
    {a \o <<NL>> \o b \o <<NL>> :
        a \in {Short, Long, Sampled, Junk}, b \in {Short, Junk, <<>>}}

OneText == {Short \o <<NL>> \o Long \o <<NL>>}
=============================================================================
