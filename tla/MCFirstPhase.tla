------------------------------ MODULE MCFirstPhase ------------------------------
(* Two scripts with one package and two configurations; two clerks. *)
EXTENDS FirstPhase, TLC

MCTypes == <<"INVOICE", "STATEMENT">>
Config(mode, auth, recipient) ==
    [mode |-> mode, auth |-> auth, oauth |-> FALSE, userJson |-> auth = "OAUTH",
     credentials |-> TRUE, sender |-> TRUE, recipient |-> recipient]
Symmetry == Permutations(Clerks) \cup Permutations(Scripts)

MCConfigs == {Config("SANDBOX", "OAUTH", "box1"), Config("SANDBOX", "DOMAIN_DELEGATION", "box2"),
              Config("SANDBOX", "NONE", "box1"), Config("DISABLED", "OAUTH", "box1")}
=============================================================================
