----------------------------- MODULE MCImports -----------------------------
(***************************************************************************)
(* Importing from a drive: two imports of one folder, the account's tokens  *)
(* and the page that starts and watches imports.  The three share no        *)
(* variable; a behaviour follows one of them, its focus.                    *)
(***************************************************************************)
EXTENDS ImportPipeline, CloudAccounts, ImportsPage, TLC

VARIABLE focus

importsAllVars == <<focus, vars, cloudVars, importsVars>>

MCParentOf == ("f" :> "r") @@ ("g" :> "f")

MCSymmetry == Permutations(CloudCalls)

MCInit ==
    /\ focus \in {"imports", "accounts", "page"}
    /\ Init /\ CloudAccountsInit /\ ImportsInit
    /\ focus # "page" => importing = {} /\ atEvent = "A"

MCNext ==
    /\ UNCHANGED focus
    /\ \/ focus = "imports" /\ Next /\ UNCHANGED <<cloudVars, importsVars>>
       \/ focus = "accounts" /\ CloudAccountsNext /\ UNCHANGED <<vars, importsVars>>
       \/ focus = "page" /\ ImportsNext /\ UNCHANGED <<vars, cloudVars>>

MCSpec == MCInit /\ [][MCNext]_importsAllVars
=============================================================================
