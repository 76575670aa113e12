---------------------------- MODULE MCTaskGroups ---------------------------
(* Two concurrent tasks that report coordinate errors between an           *)
(* environment task and a final one; the third group is empty.             *)
EXTENDS TaskGroups

CONSTANTS env, left, right, final

MCGroupOf == [t \in {env, left, right, final} |->
                IF t = env THEN 1 ELSE IF t = final THEN 4 ELSE 2]
=============================================================================
