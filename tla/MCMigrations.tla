----------------------------- MODULE MCMigrations -----------------------------
(***************************************************************************)
(* Two processes and three migrations, one of them with two statements.    *)
(* The versions 2 and 10 compare differently as numbers and as text.       *)
(***************************************************************************)
EXTENDS Migrations

MCVersion == {1, 2, 10}
MCStatement == {"eni_id_unique", "vpc_id_unique", "eni_vpc_id_idx", "later_idx"}
MCStatements ==
  [v \in MCVersion |->
     IF v = 1 THEN <<"eni_id_unique", "vpc_id_unique">>
     ELSE IF v = 2 THEN <<"eni_vpc_id_idx">>
     ELSE <<"later_idx">>]
=============================================================================
