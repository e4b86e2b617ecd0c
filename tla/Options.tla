------------------------------ MODULE Options ------------------------------
(* Values that may be absent: Option in the code. *)

CONSTANT None  \* no value

\* unwrap_or
Or(given, otherwise) == IF given = None THEN otherwise ELSE given
=============================================================================
