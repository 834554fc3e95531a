------------------------------ MODULE MCSfish ------------------------------
EXTENDS SfishProperties
CONSTANTS p1, p2, p3

\* ls; a x <f |b >g; a>g<f; ls |cd; "ls | "; jobs >f; a<f<g; a >f<g>h; |; ||; ls |exit
MCLines == {
    <<"ls">>,
    <<"a", " ", "x", " ", "<", "f", " ", "|", "b", " ", ">", "g">>,
    <<"a", ">", "g", "<", "f">>,
    <<"ls", " ", "|", "cd">>,
    <<"ls", " ", "|", " ">>,
    <<"jobs", " ", ">", "f">>,
    <<"a", "<", "f", "<", "g">>,
    <<"a", " ", ">", "f", "<", "g", ">", "h">>,
    <<"|">>,
    <<"|", "|">>,
    <<"ls", " ", "|", "exit">>}
=============================================================================
