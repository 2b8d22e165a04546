----------------------------- MODULE MCInstall ------------------------------
(* Install on a small package: lib holds two files and sub; sub holds only  *)
(* deep, which holds a file.                                                 *)
EXTENDS Install, TLC

CONSTANTS f1, f2, f3, lib, sub, deep

MCFiles == {f1, f2, f3}
MCDirs == {Root, lib, sub, deep}
MCHome == (f1 :> lib) @@ (f2 :> lib) @@ (f3 :> deep)
MCUp == (lib :> Root) @@ (sub :> lib) @@ (deep :> sub)
MCWay == (Root :> {}) @@ (lib :> {lib}) @@ (sub :> {lib, sub}) @@ (deep :> {lib, sub, deep})
Symmetry == Permutations(Installers)
=============================================================================
