----------------------------- MODULE MCSendPath -----------------------------
(* SendPath on small instances: one draft, asked for at most MaxRows times. *)
EXTENDS SendPath

\* What SendPath claims of a draft it claims until a composer wrote over it, so
\* the states after that need not be searched.
NotOverwritten == overwritten = {}
=============================================================================
