------------------------ MODULE MCIndustrialEngine -------------------------
\* Two samples, the verdicts that differ for the threshold, and uploads of three
\* photos of which the world may use two.
EXTENDS IndustrialEngine, TLC

CONSTANTS s1, s2

Says(score, accept) == [score |-> score, accept |-> accept]
Both(a, b) == s1 :> a @@ s2 :> b
MCVerdicts == {Both(Says(2, TRUE), Says(1, TRUE)), Both(Says(1, TRUE), Says(2, FALSE))}

Text(asked) == [mode |-> "text", asked |-> asked, photos |-> <<>>]
Photos(asked, names) == [mode |-> "photos", asked |-> asked, photos |-> names]
MCRequests == {Text(0), Photos(2, <<3, 1, 2>>)}
MCSameNames == {Photos(0, <<1, 1>>)}
=============================================================================
