---------------------------- MODULE MCInterpreters ----------------------------
(* Two compiles on one machine, of one user.                               *)
EXTENDS Interpreters, TLC

MCProcs == {"p1", "p2"}
MCUsers == {"venv", "pex"}

Py(stamp, kadet, kapitan) == [stamp |-> stamp, kadet |-> kadet, kapitan |-> kapitan]
Has(venv, pex, system) == "venv" :> venv @@ "pex" :> pex @@ System :> system
Each(x) == [p \in MCProcs |-> x]

\* krab's own environment, wanted by both.
Building ==
  [needs |-> Each("kadet"), explicit |-> <<>>, venvs |-> <<>>, pex |-> <<>>,
   pythons |-> Has(Py(1, 0, 0), Py(1, 0, 0), Py(1, 0, 1)),
   runs |-> Each(1), edits |-> 1, crashes |-> 1]

\* An interpreter named for both backends: what one needs the other may find missing.
Named ==
  [needs |-> "p1" :> "kadet" @@ "p2" :> "kapitan", explicit |-> <<"venv">>,
   venvs |-> <<"venv">>, pex |-> <<"pex">>,
   pythons |-> Has(Py(1, 1, 0), Py(1, 1, 1), Py(1, 0, 1)),
   runs |-> Each(2), edits |-> 1, crashes |-> 1]

\* Nothing named: the Python backend looks around, past a venv without kapitan.
Search ==
  [needs |-> Each("kapitan"), explicit |-> <<>>, venvs |-> <<"venv">>, pex |-> <<>>,
   pythons |-> Has(Py(1, 1, 0), Py(1, 0, 1), Py(1, 0, 1)),
   runs |-> Each(2), edits |-> 1, crashes |-> 0]

\* python3 named for kadet, which has it until it is upgraded.
Upgraded ==
  [needs |-> Each("kadet"), explicit |-> <<System>>, venvs |-> <<>>, pex |-> <<>>,
   pythons |-> Has(Py(1, 0, 0), Py(1, 0, 0), Py(1, 1, 0)),
   runs |-> Each(2), edits |-> 1, crashes |-> 0]

MCJobs == {Building, Named, Search, Upgraded}

\* A venv with kapitan around the project, and a PEX on PATH.
Around ==
  [needs |-> Each("kapitan"), explicit |-> <<>>, venvs |-> <<"venv">>, pex |-> <<"pex">>,
   pythons |-> Has(Py(1, 1, 1), Py(1, 1, 1), Py(1, 0, 1)),
   runs |-> Each(1), edits |-> 0, crashes |-> 0]
MCAroundJobs == {Around}
=============================================================================
