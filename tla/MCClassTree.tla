------------------------------ MODULE MCClassTree ------------------------------
(* Classes in two directories, both extensions, init files (the one at the *)
(* top is what every unknown name falls back to) and a name with reclass   *)
(* components; targets that collide in two ways.                           *)
EXTENDS ClassTree

C(s, ext) == File(<< "classes" >> \o s, ext)
T(s, ext) == File(<< "targets" >> \o s, ext)

MCUniverse ==
    { C(<<"a">>, "yml"), C(<<"a">>, "yaml"), C(<<"a", "init">>, "yml"),
      C(<<"a", "b">>, "yml"), C(<<"b">>, "yml"), C(<<"init">>, "yml"),
      T(<<"t">>, "yml"), T(<<"t">>, "yaml"), T(<<"a", "t">>, "yml") }

MCClassRefs == { <<"a">>, <<"b">>, <<"a", "b">>, <<"x", "y", "b">>, <<"", "b">>, <<"", "init">> }

MCIncluders == { C(<<"a", "init">>, "yml"), T(<<"t">>, "yml") }

MCClassLists ==
    { << <<"a">> >>, << <<"a", "*">>, <<"b">>, <<"a">> >>, << <<"b">>, <<"*">>, <<"c">> >>,
      << <<"*", "b">>, <<"a">>, <<"*">> >> }

MCNameOrder == << <<"a">>, <<"a", "b">>, <<"b">>, <<"init">> >>
=============================================================================
