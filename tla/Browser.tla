------------------------------- MODULE Browser -------------------------------
(***************************************************************************)
(* The browser's parts side by side: a tab's navigations and their         *)
(* fetches, a page's scripts, and the stores.  No step of one reads what   *)
(* another keeps, so a behaviour exercises one of them, the others resting *)
(* in their initial states.                                                *)
(***************************************************************************)
EXTENDS BrowserNavigation, PageScripts, BrowserStores

VARIABLE part  \* the one that is exercised

browserVars == <<vars, scriptVars, storeVars, part>>

BrowserInit ==
  /\ Init /\ ScriptsInit /\ StoresInit
  /\ part \in {"navigation", "scripts", "stores"}

BrowserNext ==
  /\ UNCHANGED part
  /\ \/ part = "navigation" /\ Next
        /\ UNCHANGED <<scriptVars, storeVars>>
     \/ part = "scripts" /\ ScriptsNext
        /\ UNCHANGED <<vars, storeVars>>
     \/ part = "stores" /\ StoresNext
        /\ UNCHANGED <<vars, scriptVars>>

BrowserSpec == BrowserInit /\ [][BrowserNext]_browserVars

\* Every variable of the three parts has its type, and the stores their limits.
BrowserTypeOK == TypeOK /\ ScriptsTypeOK /\ StoresTypeOK
=============================================================================
