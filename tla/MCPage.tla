------------------------------ MODULE MCPage ------------------------------
(* An instance of Page: what is replayed makes no difference to the page.  *)
EXTENDS Page

SmallEvents == [kind \in Kinds |-> {1}]

=============================================================================
