----------------------------- MODULE MCFileLog -----------------------------
(* Few entries, a cache and files that hold one or two of them.            *)
EXTENDS FileLog
=============================================================================
