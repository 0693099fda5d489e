------------------------------ MODULE MCPages ------------------------------
(* Every page of the table.  Two grades; the first has two subjects, of     *)
(* which the first has two units and the second none; the second grade has  *)
(* no subject.  (super_admin is granted and shown what admin is.)           *)
EXTENDS Pages, TLC

MCViews == DOMAIN Table
MCRoles == AllRoles \ {"super_admin"}
MCChildren == <<{3, 4}, {}, {5, 6}, {}, {}, {}>> @@ (0 :> {1, 2})
=============================================================================
