-------------------------- MODULE MCBreadcrumb --------------------------
(***************************************************************************)
(* Instance of the breadcrumb trail for TLC.                               *)
(***************************************************************************)
EXTENDS BreadcrumbProperties, TLC

CONSTANTS analyze, review

MCStep == {analyze, review}
MCRequest == {<<analyze, TRUE>>, <<review, TRUE>>, <<review, FALSE>>}
MCChecking == {review}
Symmetric == Permutations(Process)
=============================================================================
