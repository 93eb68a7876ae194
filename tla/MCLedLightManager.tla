------------------------ MODULE MCLedLightManager ------------------------
(* Small configurations for LedLightManager: mail has two notifications,    *)
(* chat one.                                                                *)
EXTENDS LedLightManager

MCKeys == {[pkg |-> "mail", id |-> 1], [pkg |-> "mail", id |-> 2], [pkg |-> "chat", id |-> 1]}
MCTitles == {{"bob"}}

Line(pkg, str, color) ==
  [pkg |-> pkg, str |-> str, color |-> color, bad |-> FALSE, broken |-> FALSE]
BadLine == [Line("mail", AnyString, "red") EXCEPT !.bad = TRUE]
BrokenLine == [Line("chat", AnyString, "white") EXCEPT !.broken = TRUE]

\* A catch-all rule for every package; a line that cannot be parsed and a colour
\* that cannot; a package all of whose rules have strings; an empty file.
MCConfigs ==
  { <<Line("mail", "bob", "blue"), Line("mail", AnyString, "red"),
      Line("chat", AnyString, "white")>>,
    <<BadLine, Line("mail", AnyString, "red"), BrokenLine>>,
    <<Line("mail", "bob", "blue"), Line("chat", AnyString, "white")>>,
    << >> }
==========================================================================
