------------------------------ MODULE AVLicensing ------------------------------
(***************************************************************************)
(* class AVLicensing (src/avlicensing.cpp): Checker, GetLicenseInfoJson    *)
(* and ShowProducts, each a row of calls to the library of the dongle.     *)
(* The dongle may be pulled, plugged or changed between any two of them.   *)
(*                                                                         *)
(* What ExtractAllProductNames makes of the licences is in                 *)
(* GuardantChannel; here it matters that it is handed a buffer.            *)
(***************************************************************************)
EXTENDS Integers

CONSTANTS
  NoDongle,    \* no dongle, or one that does not carry the feature
  NotLimited,  \* a limit the feature does not have
  Now,         \* the seconds since 1970: far beyond any remaining time
  Seconds,     \* the seconds and the runs a feature may have left
  Runs

ASSUME AVLicensingAssumption ==
  /\ Now \in Nat
  /\ Seconds \subseteq 0..(Now - 1)
  /\ NotLimited \notin Seconds \cup Runs

VARIABLES
  method,    \* the method called
  lic_pc,
  dongle,
  buffers,   \* the buffers of the library not given back
  logins,    \* the handles not logged out
  answer,    \* what Checker returns
  steady,    \* history: the dongle has not changed since the call
  carried    \* history: at some time since the call there was a dongle

licVars == <<method, lic_pc, dongle, buffers, logins, answer, steady, carried>>

Methods == {"Checker", "GetLicenseInfoJson", "ShowProducts"}

Features == [remaining : Seconds \cup {NotLimited}, runs : Runs \cup {NotLimited}]

CheckerSteps == {"login", "time", "runs", "logout"}

-------------------------------------------------------------------------------
AVLicensingTypeOK ==
  /\ method \in Methods
  /\ lic_pc \in {"info", "returned", "crashed"} \cup CheckerSteps
  /\ lic_pc \in CheckerSteps => method = "Checker"
  /\ dongle \in Features \cup {NoDongle}
  /\ buffers \in 0..1
  /\ logins \in 0..1
  /\ answer \in 0..3
  /\ {steady, carried} \subseteq BOOLEAN

AVLicensingInit ==
  /\ method \in Methods
  /\ lic_pc = "info"
  /\ dongle \in Features \cup {NoDongle}
  /\ buffers = 0
  /\ logins = 0
  /\ answer = 0
  /\ steady = TRUE
  /\ carried = (dongle # NoDongle)

World == <<method, dongle, steady, carried>>

DongleChanges ==
  /\ lic_pc \notin {"returned", "crashed"}
  /\ dongle' \in (Features \cup {NoDongle}) \ {dongle}
  /\ steady' = FALSE
  /\ carried' = (carried \/ dongle' # NoDongle)
  /\ UNCHANGED <<method, lic_pc, buffers, logins, answer>>

(***************************************************************************)
(* GrdGetLicenseInfo, with a dongle or without.  When it fails there is no *)
(* buffer: Checker answers 1, GetLicenseInfoJson gives an empty string,    *)
(* and ShowProducts has the null pointer parsed.                           *)
(***************************************************************************)
InfoFails ==
  /\ lic_pc = "info"
  /\ lic_pc' = IF method = "ShowProducts" THEN "crashed" ELSE "returned"
  /\ answer' = IF method = "Checker" THEN 1 ELSE answer
  /\ UNCHANGED <<World, buffers, logins>>

(***************************************************************************)
(* All but ShowProducts give the buffer back when they are done with it.   *)
(***************************************************************************)
InfoGood ==
  /\ lic_pc = "info"
  /\ lic_pc' = IF method = "Checker" THEN "login" ELSE "returned"
  /\ buffers' = IF method = "ShowProducts" THEN 1 ELSE 0
  /\ UNCHANGED <<World, logins, answer>>

(***************************************************************************)
(* GrdFeatureLogin may refuse a feature that has no time or no runs left.  *)
(***************************************************************************)
UsedUp == dongle # NoDongle /\ 0 \in {dongle.remaining, dongle.runs}

LoginFails ==
  /\ lic_pc = "login"
  /\ dongle = NoDongle \/ UsedUp
  /\ lic_pc' = "returned"
  /\ answer' = 1
  /\ UNCHANGED <<World, buffers, logins>>

LoginGood ==
  /\ lic_pc = "login"
  /\ dongle # NoDongle
  /\ logins' = 1
  /\ lic_pc' = "time"
  /\ UNCHANGED <<World, buffers, answer>>

(***************************************************************************)
(* The remaining time is compared with the time of day.  A status that is  *)
(* not GRD_OK (no limit, or no dongle any more) counts as good.            *)
(***************************************************************************)
TimeLimitHit ==
  /\ dongle # NoDongle
  /\ dongle.remaining # NotLimited
  /\ dongle.remaining > 0 /\ dongle.remaining < Now

RunsHit == dongle # NoDongle /\ dongle.runs = 0

ReturnHoldingLogin(hit, code, next) ==  \* mutant: an early return without logout
  /\ IF hit THEN lic_pc' = "returned" /\ answer' = code
     ELSE lic_pc' = next /\ UNCHANGED answer
  /\ UNCHANGED <<World, buffers, logins>>

ReturnIf(hit, code, next) ==
  /\ IF hit THEN lic_pc' = "returned" /\ answer' = code /\ logins' = logins - 1
     ELSE lic_pc' = next /\ UNCHANGED <<answer, logins>>
  /\ UNCHANGED <<World, buffers>>

CheckTime == lic_pc = "time" /\ ReturnIf(TimeLimitHit, 2, "runs")

CheckRunsLoosely ==          \* mutant: the status is not looked at
  lic_pc = "runs" /\ ReturnIf(dongle = NoDongle \/ dongle.runs \in {0, NotLimited},
                              3, "logout")

CheckRuns == lic_pc = "runs" /\ ReturnIf(RunsHit, 3, "logout")

Logout == lic_pc = "logout" /\ ReturnIf(TRUE, 0, "returned")

AVLicensingNext ==
  \/ DongleChanges \/ InfoFails \/ InfoGood \/ LoginFails \/ LoginGood
  \/ CheckTime \/ CheckRuns \/ Logout

-------------------------------------------------------------------------------
(***************************************************************************)
(* Whichever way a method returns, and whatever happened to the dongle     *)
(* meanwhile, no login is left, and no buffer except the one ShowProducts  *)
(* never gives back.                                                       *)
(***************************************************************************)
NothingLeft ==
  lic_pc = "returned" =>
    logins = 0 /\ (buffers = 1 => method = "ShowProducts")

(***************************************************************************)
(* Checker answers 0 only if the feature was there at some time of the     *)
(* call; and if the dongle did not change, only to a feature with runs     *)
(* left and without a running time limit, never 0 to one that has used up  *)
(* its runs, and never 2 or 3 to one without limits.                       *)
(***************************************************************************)
AnswerFits ==
  lic_pc = "returned" /\ method = "Checker" =>
    /\ answer = 0 => carried
    /\ steady /\ answer = 0 =>
         dongle # NoDongle /\ dongle.runs # 0 /\ dongle.remaining \in {NotLimited, 0}
    /\ steady /\ answer = 2 => dongle.remaining # NotLimited
    /\ steady /\ answer = 3 => dongle.runs = 0

(***************************************************************************)
(* By the comment on GrdFeatureGetTimeLimit what it returns is the time    *)
(* limit of the feature in seconds: a feature Checker says has expired,    *)
(* with the dongle as it was throughout, has none of it left.              *)
(***************************************************************************)
ExpiredHasNoTimeLeft ==
  lic_pc = "returned" /\ steady /\ answer = 2 => dongle.remaining = 0
===============================================================================
