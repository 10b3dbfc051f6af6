-------------------------------- MODULE MCItems --------------------------------
(***************************************************************************)
(* Targets with a few items each.                                          *)
(***************************************************************************)
EXTENDS Items, TLC

Files == {"a", "aa", "b", "d", "g", "m", "ref", "text", "tmpl", "near", "far", "chart", "script"}
Keys == {"k", "l"}

Does(own, imports, writes) ==
    [reads |-> own, imports |-> imports, writes |-> writes, creates |-> {}, includes |-> << >>]

Programs ==
    "a" :> Does({}, {"m"}, << "x" >>) @@ "aa" :> Does({}, {}, << "z" >>)
    @@ "b" :> Does({}, {"m"}, << "y" >>)
    @@ "d" :> [Does({"l"}, {}, << "v", "w" >>) EXCEPT !.creates = {"ref"}]
    @@ "g" :> Does({"other", "text"}, {}, << "u" >>)
    @@ "m" :> Does({"k"}, {}, << >>) @@ "ref" :> Does({}, {}, << >>)
    @@ "text" :> Does({}, {}, << "text" >>)
    @@ "tmpl" :> [Does({"k", "other"}, {}, << "t" >>) EXCEPT !.includes = << "near", "far" >>]
    @@ "near" :> Does({}, {}, << >>) @@ "far" :> Does({}, {}, << >>)
    @@ "chart" :> Does({}, {}, << "x", "y" >>) @@ "script" :> Does({}, {}, << "x" >>)

Item_(type, path) ==
    [type |-> type, inputs |-> path, paths |-> {ToSet(path)}, glob |-> Len(path) > 1, out |-> "o",
     ignoreMissing |-> FALSE, tolerant |-> FALSE]
Kadet(path) == Item_("kadet", path)
Tolerant(item) == [item EXCEPT !.tolerant = TRUE]

Project_(documents, values, backends, most) ==
    [documents |-> documents, values |-> values, backends |-> backends, max |-> [edits |-> most]]
Steady(S) == [n \in S |-> {"1"}]

(* Components that share a module, the module reading a key as it loads.   *)
Modules == Project_({<< Kadet(<< "a", "b" >>) >>},
    "b" :> {"1", Absent} @@ "m" :> {"1", "2"} @@ "k" :> {"1", "2"} @@ Steady({"a", "l"}),
    {"native"}, 2)
(* A component that creates a ref, next to one that does not read it.      *)
Reffing == Project_({<< Kadet(<< "d" >>), Kadet(<< "a" >>) >>},
    "ref" :> {Absent, Made} @@ "d" :> {"1", Bad} @@ "l" :> {"1", "2"} @@ Steady({"a", "m", "k"}),
    {"native"}, 2)
(* Items that build on the files of earlier ones.                          *)
Layered == Project_({<< Kadet(<< "a" >>), Kadet(<< "b" >>), Item_("external", << "script" >>),
                        Item_("remove", << << "o", "y" >> >>) >>,
                     << Item_("helm", << "chart" >>), Kadet(<< "a" >>) >>,
                     << Kadet(<< "a" >>), Item_("helm", << "chart" >>) >>},
    "script" :> {"1", Bad} @@ "m" :> {"1", "2"} @@ Steady({"a", "b", "k", "l", "chart"}),
    {"native"}, 2)
(* The same definition once and twice, and others' documents.              *)
Twice == Project_({<< Kadet(<< "g" >>) >>, << Kadet(<< "g" >>), Kadet(<< "g" >>) >>},
    Others :> {"1", "2"} @@ "text" :> {"1", "2"} @@ "g" :> {"1", Absent} @@ Steady({"k", "l"}),
    {"native"}, 2)
Templates == Project_({<< Item_("jinja2", << "tmpl" >>), Item_("copy", << "text" >>) >>},
    "tmpl" :> {"1", Bad} @@ "far" :> {"1", "2", Absent} @@ "text" :> {"1", "2"} @@ Others :> {"1", "2"}
        @@ Steady({"k", "l"}),
    {"native", "python"}, 2)
(* Items that may fail, some of them half way.                             *)
Forgiving == Project_({<< Tolerant(Kadet(<< "d" >>)), Kadet(<< "a" >>) >>},
    "d" :> {"1", Bad, Late} @@ "ref" :> {Absent} @@ "a" :> {"1", Absent} @@ "l" :> {"1", "2"}
        @@ Steady({"m", "k"}),
    {"native", "python"}, 2)
(* A worker that dies after a command has appended to a file.              *)
Workers == Project_({<< Item_("external", << "script" >>), Kadet(<< "d" >>) >>},
    "script" :> {"1", "2"} @@ "d" :> {"1", Bad} @@ "ref" :> {Absent} @@ Steady({"k", "l"}),
    {"python"}, 1)

AllProjects == {Modules, Reffing, Layered, Twice, Templates, Forgiving, Workers}

-----------------------------------------------------------------------------
(* What goes unnoticed. *)

(* A component that sorts between two others appears.                      *)
Inserted == {Project_({<< Kadet(<< "a", "aa", "b" >>) >>},
    "aa" :> {Absent, "1"} @@ Steady({"a", "b", "m", "k", "l"}), {"native"}, 1)}
(* A file that a template includes appears nearer to the template.         *)
Shadowed == {Project_({<< Item_("jinja2", << "tmpl" >>) >>},
    "near" :> {Absent, "1"} @@ Others :> {"1"} @@ Steady({"tmpl", "far", "k", "l"}), {"native"}, 1)}
(* A component that failed, and was allowed to, is repaired.               *)
Repaired == {Project_({<< Tolerant(Kadet(<< "aa" >>)) >>},
    "aa" :> {"1", Bad} @@ Steady({"k", "l"}), {"native"}, 1)}
===============================================================================
