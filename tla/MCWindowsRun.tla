---------------------------- MODULE MCWindowsRun ----------------------------
\* Two small volumes for WindowsRun.
EXTENDS WindowsRun

MCRef(i, seq) == [index |-> i, seq |-> seq]
MCRecord(i, seq, parent, name, dir) == [ref |-> MCRef(i, seq), parent |-> parent, name |-> name, dir |-> dir]
MCRoot == MCRef(5, 5)
MCSystem ==
  {MCRecord(6, 1, MCRoot, "qt", TRUE), MCRecord(9, 1, MCRoot, "windows", TRUE),
   MCRecord(10, 1, MCRef(6, 1), "a.exe", FALSE), MCRecord(12, 1, MCRef(9, 1), "k.dll", FALSE),
   MCRecord(13, 1, MCRef(30, 1), "package.json", FALSE),
   MCRecord(14, 1, MCRef(30, 2), "b.exe", FALSE), MCRecord(30, 2, MCRoot, "qtcreator", TRUE)}
MCData == {MCRecord(11, 1, MCRoot, "c.exe", FALSE)}
MCDisks == {[v \in {"C", "D", "E"} |-> IF v = "C" THEN MCSystem ELSE IF v = "D" THEN MCData ELSE {}]}
MCInstalled == {{<<"C", "qt">>}}
MCSpecs == {<<>>, <<"D", "C", "D">>, <<"E", "C">>}
MCExecutableNames == {"a.exe", "b.exe", "c.exe", "k.dll"}
MCPeImports ==
  <<"C", "qt", "a.exe">> :> <<"k.dll", "api-ms">> @@ <<"C", "qtcreator", "b.exe">> :> <<"k.dll">>
  @@ <<"C", "windows", "k.dll">> :> <<"n.dll", "k.dll">>
=============================================================================
