--------------------------- MODULE MCBrandingPage ---------------------------
(* Forms for checking BrandingPage: Spaces has only spaces for names and Untidy is Acme with *)
(* a space behind a field or without a version.                                              *)
EXTENDS BrandingPage

CONSTANTS Spaces, Acme, Untidy, Beta

MCStored == [f \in Form |-> IF f = Untidy THEN Acme ELSE IF f = Spaces THEN Blank ELSE f]

=============================================================================
