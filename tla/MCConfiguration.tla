-------------------------- MODULE MCConfiguration --------------------------
(* A small instance: two package files of one package and a third content of *)
(* another one, with remappings that overlap; a plug-in that imports another *)
(* one.  The files are there at first.                                       *)
EXTENDS Configuration, TLC

CONSTANTS u1, u2, older, newer, other, one, two, main, part, early, hook

MCIdentifier == older :> one @@ newer :> one @@ other :> two
MCVersion == older :> 1 @@ newer :> 2 @@ other :> 1
S == <<"a">>
Longer == <<"a", "b">>
MCStartStrings == {S, Longer}
MCTargets == {<<"x">>, <<"y">>, <<"a", "b">>}
MCRemapping ==
    older :> (S :> <<"x">> @@ Longer :> None) @@
    newer :> (S :> None @@ Longer :> <<"y">>) @@
    other :> (S :> <<"a", "b">> @@ Longer :> <<"x">>)
MCAsked == {<<"a", "c">>, <<"a", "b", "c">>}

MCImports == main :> {part} @@ part :> {}
MCDeclares ==
    main :> (1 :> {hook} @@ 2 :> {hook, early}) @@
    part :> (1 :> {hook, early} @@ 2 :> {})

MCFails == {<<part, 2>>}

MCInit ==
    /\ ConfigurationInit
    /\ disk = (u1 :> older @@ u2 :> other)
    /\ code = (main :> 1 @@ part :> 1)
MCSpec == MCInit /\ [][ConfigurationNext]_allVars
=============================================================================
