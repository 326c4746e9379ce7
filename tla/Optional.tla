------------------------------ MODULE Optional ------------------------------
(***************************************************************************)
(* Values shared by modules that are extended together.                    *)
(***************************************************************************)

CONSTANT None       \* Python's None

OK == "OK"          \* the code of an outcome that is no failure
=============================================================================
