---------------------------- MODULE MCOrganisers ----------------------------
(* A small instance of Organisers.                                          *)
EXTENDS Organisers

\* One form with boxes ticked in two places, and one for Drive.
TwoForms == {[kind |-> "s3", ticked |-> {<<"live">>, <<"s3", "insecure">>}],
             [kind |-> "googleDrive", ticked |-> {}]}

\* The operator of the installation does not sign up beside the administrator;
\* a guest tries every name, the administrator's too.
GuestNames == [p \in People |-> IF p = Operator THEN {} ELSE Names]

Interchangeable == Permutations(Requests)
=============================================================================
