---------------------------- MODULE MCFilesystem ---------------------------
(* Small instances of Filesystem: paths that share directories.              *)
EXTENDS Filesystem

\* values for Paths
SharedPaths == {<<"a">>, <<"a", "b">>, <<"a", "b", "c">>, <<"a", "d">>}
=============================================================================
