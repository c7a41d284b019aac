------------------------------ MODULE Accounts ------------------------------
(***************************************************************************)
(* How people get an account: by asking for access, by an invitation, and  *)
(* by the first visit with a cookie of the gateway.                        *)
(*                                                                         *)
(* Accounts are looked up by e-mail address, which need not be unique in   *)
(* the User table; the username is. A lookup that finds two rows raises.   *)
(* The gateway brings the address into one spelling before it looks it up  *)
(* and stores it; an invitation does both with the address as it was typed.*)
(***************************************************************************)
EXTENDS Integers, FiniteSets

CONSTANTS
    Addresses,       \* e-mail addresses, as somebody may spell them
    Canonical,       \* an address in lower case and without the blanks around it; no
                     \* two canonical addresses have the same local part
    Users,           \* User rows
    AccessRequests,  \* AccessRequest rows
    Invitations,     \* Invitation rows
    AccountCalls,    \* requests that may overlap
    LastNumber,      \* bound on the number that is appended to a username
    Nobody

ASSUME NobodyAssumption == Nobody \notin Addresses
ASSUME NumbersAssumption == LastNumber \in Nat
ASSUME CanonicalAssumption ==
    /\ Canonical \in [Addresses -> Addresses]
    /\ \A a \in Addresses : Canonical[Canonical[a]] = Canonical[a]

VARIABLES
    user,         \* the User table
    access,       \* the AccessRequest table
    invitation,   \* the Invitation table
    accountCall,  \* what each request is doing
    contended     \* history: addresses whose account was inserted while another request
                  \* was creating one under another username

accountVars == <<user, access, invitation, accountCall, contended>>

----------------------------------------------------------------------------
\* A username is the address itself, or the local part of the canonical address, or that
\* with a number: -1, 0, 1, ...
Usernames == -1..LastNumber
WholeAddress == -1

NoUser == [email |-> Nobody, username |-> 0]
NoRequest == [email |-> Nobody, status |-> "none"]
NoInvitation == [email |-> Nobody, state |-> "none"]
Unoccupied == [doing |-> "idle"]

AccountInit ==
    /\ user = [u \in Users |-> NoUser]
    /\ access = [q \in AccessRequests |-> NoRequest]
    /\ invitation = [i \in Invitations |-> NoInvitation]
    /\ accountCall = [r \in AccountCalls |-> Unoccupied]
    /\ contended = {}

With(a) == {u \in Users : user[u].email = a}
Taken(a, name) == \E u \in With(a) : user[u].username = name

Now(r, call) == accountCall' = [accountCall EXCEPT ![r] = call]
Rest(r) == Now(r, Unoccupied)

\* The requests that have found no account of an address and are about to create it.
Creating(a) == {r \in AccountCalls : accountCall[r].doing \in {"naming", "creating"}
                                         /\ accountCall[r].email = a}

\* Those among them, other than r, that the username of r's account will not stop.
Rivals(r) ==
    {q \in Creating(accountCall[r].email) \ {r} :
        accountCall[q].doing = "naming" \/ accountCall[q].username # accountCall[r].username}

----------------------------------------------------------------------------
(* The gateway.                                                            *)

\* Defect: the lookup is by username, which for an invited user is the whole address.
GatewaySSOMiddleware_ByUsername(r, a) ==
    /\ accountCall[r] = Unoccupied
    /\ ~Taken(Canonical[a], 0)
    /\ Now(r, [doing |-> "naming", email |-> Canonical[a]])
    /\ UNCHANGED <<user, access, invitation, contended>>

\* A visit with a cookie. One account is logged in, several raise: neither changes any row.
GatewaySSOMiddleware(r, a) ==
    /\ accountCall[r] = Unoccupied
    /\ With(Canonical[a]) = {}
    /\ Now(r, [doing |-> "naming", email |-> Canonical[a]])
    /\ UNCHANGED <<user, access, invitation, contended>>

\* The first username that is free ...
ChooseUsername(r) ==
    /\ accountCall[r].doing = "naming"
    /\ LET a == accountCall[r].email
       IN  \E n \in 0..LastNumber :
             /\ ~Taken(a, n)
             /\ \A k \in 0..(n - 1) : Taken(a, k)
             /\ Now(r, [doing |-> "creating", email |-> a, username |-> n, for |-> Nobody])
    /\ UNCHANGED <<user, access, invitation, contended>>

\* ... is inserted, or by now violates the unique constraint and fails the request;
\* get_or_create then looks for the account once more.
create_user(r) ==
    /\ accountCall[r].doing = "creating"
    /\ LET call == accountCall[r]
       IN  IF Taken(call.email, call.username)
           THEN /\ IF call.for # Nobody /\ Cardinality(With(call.email)) = 1
                   THEN Now(r, [doing |-> "welcoming", for |-> call.for]) ELSE Rest(r)
                /\ UNCHANGED <<user, contended>>
           ELSE /\ \E u \in {v \in Users : user[v] = NoUser} :
                     user' = [user EXCEPT ![u] = [email |-> call.email, username |-> call.username]]
                /\ IF call.for = Nobody THEN Rest(r)
                   ELSE Now(r, [doing |-> "welcoming", for |-> call.for])
                /\ contended' = contended \cup (IF Rivals(r) = {} THEN {} ELSE {call.email})
    /\ UNCHANGED <<access, invitation>>

----------------------------------------------------------------------------
(* Access requests and invitations.                                        *)

RequestAccessView(q, a) ==
    /\ access[q] = NoRequest
    /\ access' = [access EXCEPT ![q] = [email |-> a, status |-> "pending"]]
    /\ UNCHANGED <<user, invitation, accountCall, contended>>

Invite(i, a) ==
    /\ invitation[i].state = "none"
    /\ invitation' = [invitation EXCEPT ![i] = [email |-> a, state |-> "open"]]

InviteUserView(i, a) ==
    /\ Invite(i, a)
    /\ UNCHANGED <<user, access, accountCall, contended>>

\* A request may be reviewed again; every approval makes another invitation.
ReviewAccessRequestView(q, i, approve) ==
    /\ access[q] # NoRequest
    /\ access' = [access EXCEPT ![q].status = IF approve THEN "approved" ELSE "declined"]
    /\ \/ approve /\ Invite(i, access[q].email)
       \/ ~approve /\ UNCHANGED invitation
    /\ UNCHANGED <<user, accountCall, contended>>

InvitationActionView(i) ==
    /\ invitation[i].state \in {"open", "accepted"}
    /\ invitation' = [invitation EXCEPT ![i].state = "revoked"]
    /\ UNCHANGED <<user, access, accountCall, contended>>

\* The invitation of the token is found open ...
AcceptInviteView(r, i) ==
    /\ accountCall[r] = Unoccupied
    /\ invitation[i].state = "open"
    /\ Now(r, [doing |-> "accepting", for |-> i])
    /\ UNCHANGED <<user, access, invitation, contended>>

\* ... get_or_create looks for the account: with one the password is set, with none it is
\* created under the whole address, and with several the request fails.
GetOrCreateUser(r) ==
    /\ accountCall[r].doing = "accepting"
    /\ LET i == accountCall[r].for
           a == invitation[i].email
       IN  \/ /\ With(a) = {}
              /\ Now(r, [doing |-> "creating", email |-> a, username |-> WholeAddress, for |-> i])
           \/ /\ Cardinality(With(a)) = 1
              /\ Now(r, [doing |-> "welcoming", for |-> i])
           \/ /\ Cardinality(With(a)) > 1
              /\ Rest(r)
    /\ UNCHANGED <<user, access, invitation, contended>>

\* The invitation is saved as accepted, a revoked one is inserted again. The login that
\* follows raises, for there are several backends to choose from.
SaveInvitation(r) ==
    /\ accountCall[r].doing = "welcoming"
    /\ invitation' = [invitation EXCEPT ![accountCall[r].for].state = "accepted"]
    /\ Rest(r)
    /\ UNCHANGED <<user, access, contended>>

----------------------------------------------------------------------------
AccountNext ==
    \/ \E r \in AccountCalls :
         \/ \E a \in Addresses : GatewaySSOMiddleware(r, a)
         \/ \E i \in Invitations : AcceptInviteView(r, i)
         \/ ChooseUsername(r) \/ create_user(r) \/ GetOrCreateUser(r) \/ SaveInvitation(r)
    \/ \E q \in AccessRequests :
         \/ \E a \in Addresses : RequestAccessView(q, a)
         \/ \E i \in Invitations, approve \in BOOLEAN : ReviewAccessRequestView(q, i, approve)
    \/ \E i \in Invitations : InvitationActionView(i) \/ \E a \in Addresses : InviteUserView(i, a)

AccountSpec == AccountInit /\ [][AccountNext]_accountVars

----------------------------------------------------------------------------
AccountTypeOK ==
    /\ user \in [Users -> [email : Addresses \cup {Nobody}, username : Usernames]]
    /\ access \in [AccessRequests -> [email : Addresses \cup {Nobody},
                                      status : {"none", "pending", "approved", "declined"}]]
    /\ invitation \in [Invitations -> [email : Addresses \cup {Nobody},
                                       state : {"none", "open", "accepted", "revoked"}]]
    /\ contended \subseteq Addresses

\* A person has one account, whether by an invitation, by several of them or by the gateway,
\* and although the username alone is unique. There are two ways to a second one: another
\* request that had found none was under way with another username when the first account
\* was inserted; or an invitation was typed in a spelling other than the canonical one, whose
\* account the gateway and the invitations in other spellings do not find.
OneAccountPerAddress ==
    \A a, b \in Addresses : \A u \in With(a), v \in With(b) :
        u # v /\ Canonical[a] = Canonical[b] =>
            \/ a = b /\ a \in contended
            \/ a # b /\ \E w \in {u, v} : /\ user[w].username = WholeAddress
                                         /\ user[w].email # Canonical[user[w].email]
=============================================================================
