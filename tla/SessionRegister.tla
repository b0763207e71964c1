---- MODULE SessionRegister ----
(***************************************************************************)
(* What the handlers and the tabs rely on about the session of a user: one *)
(* register that holds a whole session or none, changed by one operation   *)
(* at a time, with the tabs told of its value when a connect or disconnect *)
(* is over.  There are no keys and no requests here.                       *)
(*                                                                         *)
(* The store gives no such promise once two operations wrote across each   *)
(* other or one stopped half-way.  The register says so, it is "torn", and *)
(* it says what it takes to be whole again.                                *)
(***************************************************************************)
CONSTANTS
    Tokens,     \* accounts
    Orgs,       \* organizations
    None        \* no session; in a session, no usable organization

VARIABLES
    status,     \* the operation under way, "steady" or "torn"
    session,    \* the session, from the first write of its operation on
    told        \* the tabs were told that there is a session

vars == <<status, session, told>>

Sessions == [account : Tokens, org : Orgs]

\* An older plugin leaves a session without a member ID.
LegacySessions == [account : Tokens, org : {None}]

Changing == {"connecting", "disconnecting", "selecting"}

Init ==
    /\ status = "steady"
    /\ session \in {None} \cup LegacySessions
    /\ told = (session # None)

StartConnect ==
    /\ status = "steady"
    /\ status' = "connecting"
    /\ session' \in Sessions
    /\ told' = told

StartDisconnect ==
    /\ status = "steady"
    /\ status' = "disconnecting"
    /\ session' = None
    /\ told' = told

\* A switch, or the repair of an old session: of one key it is over at once.
Select ==
    /\ status = "steady"
    /\ status' \in {"selecting", "steady"}
    /\ session # None
    /\ session' \in Sessions
    /\ session'.account = session.account
    /\ told' = told

\* The operation ends with the session it began to write, and the tabs know it.
End ==
    /\ status \in Changing
    /\ status' = "steady"
    /\ session' = session
    /\ told' = (session # None)

Tear ==
    /\ status' = "torn"
    /\ session' = None
    /\ told' \in BOOLEAN

\* An undisturbed connect or disconnect replaces whatever was left.
Mend ==
    /\ status = "torn"
    /\ status' = "steady"
    /\ session' \in {None} \cup Sessions
    /\ told' = (session' # None)

Next == StartConnect \/ StartDisconnect \/ Select \/ End \/ Tear \/ Mend

Spec == Init /\ [][Next]_vars
====
