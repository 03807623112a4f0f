----------------------------- MODULE MCRedaction -----------------------------
(***************************************************************************)
(* Small instances of Redaction over two symbols.                          *)
(***************************************************************************)
EXTENDS Redaction

Values == UNION {[1..length -> {"a", "b"}] : length \in 2..4}

\* The configurations the writer is right for.
ApartConfigurations ==
    {configured \in SeqOf(Values, 2) : configured # <<>> /\ Apart(configured)}

\* A value that ends as it starts.
BorderedConfiguration == {<< <<"a", "b", "a">> >>}
=============================================================================
