-------------------------------- MODULE Accounts -------------------------------
(***************************************************************************)
(* The accounts of the dashboard (web/lib): sign-in links behind a rate    *)
(* limiter, signed session cookies, roles, and admin writes with the row   *)
(* that records each of them.                                              *)
(*                                                                         *)
(* The routes around these modules are not in the repository; a request    *)
(* calls them in the order PLANS/workstreams/auth.md gives: limiter, issue *)
(* and send; verify and mint; cookie, permission, write and log.  Requests *)
(* interleave at every await, and any of them may fail there.              *)
(***************************************************************************)
EXTENDS Naturals, Sequences, FiniteSets

CONSTANTS
    Requests,   \* requests in progress at once
    Emails,
    Nothing,
    Max,        \* the limiter: so many hits ...
    Window,     \* ... in a window of this length
    LinkTtl,
    SessionTtl,
    MaxTime,    \* bound: the clock
    MaxLinks,   \* bound: links issued
    MaxWrites,  \* bound: admin writes
    MaxFaults   \* bound: failures, restarts, clocks set back, roles and secrets changed

ASSUME LimitAssumption == Max \in Nat \ {0} /\ Window \in Nat
ASSUME LifetimesAssumption == LinkTtl \in Nat /\ SessionTtl \in Nat
ASSUME NothingAssumption == Nothing \notin Nat
ASSUME CountersAssumption == MaxTime \in Nat /\ MaxLinks \in Nat /\ MaxFaults \in Nat

VARIABLES
    now,
    hits,      \* the memory store: per email, the times of its hits
    links,     \* magic_link_tokens: a link is named by its number
    mailed,    \* the links whose email was sent
    members,   \* the role of each user
    secrets,   \* the accepted cookie secrets, the current one first
    cookies,   \* the cookies minted
    policy,    \* the version of the policy
    tokens,    \* the api tokens: "live" or "revoked"
    rows,      \* admin_actions
    job,       \* of each request
    \* history
    writes,    \* the writes that took effect, each with its cookie and time
    lost,      \* the writes whose request failed before it logged them
    disturbed, \* the clock was set back or the server restarted
    faults

auth == <<hits, links, mailed, cookies>>
admin == <<policy, tokens, rows, writes, lost>>
config == <<members, secrets>>
bounds == <<disturbed, faults>>
accountsVars == <<now, auth, admin, config, job, bounds>>

-----------------------------------------------------------------------------
(* rbac.ts.                                                                *)

Roles == {"admin", "viewer", "billing"}

Billing == {"billing:portal", "billing:checkout"}
Reads == {"audit:read", "audit:export", "grants:read", "keys:read", "devices:read",
          "anomalies:read", "policy:read", "tokens:read", "members:read"}
Changes == {"grants:revoke", "keys:rotate", "anomalies:dismiss", "policy:write",
            "tokens:create", "tokens:revoke", "members:invite", "members:remove"}

ROLE_PERMISSIONS == [admin |-> Reads \cup Changes \cup Billing, viewer |-> Reads, billing |-> Billing]

\* Without a role nobody is authenticated.
can(role, perm) == role # Nothing /\ perm \in ROLE_PERMISSIONS[role]

\* The actions of actions.ts and what each requires.
Actions == {"policy.save", "token.issue", "token.revoke"}
Permission(a) == CASE a = "policy.save" -> "policy:write"
                   [] a = "token.issue" -> "tokens:create"
                   [] a = "token.revoke" -> "tokens:revoke"

-----------------------------------------------------------------------------
Cookie == [link : 1..MaxLinks, email : Emails, role : Roles \cup {Nothing}, exp : Nat, secret : Nat]
Change == [action : Actions, target : Nat]

Idle == [at |-> "idle", link |-> Nothing, cookie |-> Nothing, change |-> Nothing]

AccountsTypeOK ==
    /\ now \in 0..MaxTime
    /\ \A e \in Emails : \A i \in DOMAIN hits[e] : hits[e][i] \in 0..MaxTime
    /\ \A l \in DOMAIN links : links[l].email \in Emails /\ links[l].consumedAt \in Nat \cup {Nothing}
    /\ mailed \subseteq DOMAIN links
    /\ \A c \in cookies : c \in Cookie
    /\ \A n \in DOMAIN tokens : tokens[n] \in {"live", "revoked"}
    /\ \A r \in Requests :
           /\ job[r].at \in {"idle", "issued", "verified", "allowed", "written"}
           /\ job[r].at = "written" => job[r].change \in Change
           /\ job[r].at = "verified" => links[job[r].link].consumedAt \in Nat
    /\ \A i \in DOMAIN rows : rows[i].change \in Change
    /\ lost \subseteq writes /\ faults \in 0..MaxFaults /\ disturbed \in BOOLEAN

AccountsInit ==
    /\ now = 0
    /\ hits = [e \in Emails |-> <<>>]
    /\ links = <<>> /\ mailed = {} /\ cookies = {}
    /\ \E owner \in Emails : members = [e \in Emails |-> IF e = owner THEN "admin" ELSE "viewer"]
    /\ secrets = <<1>>
    /\ policy = 1 /\ tokens = <<>> /\ rows = <<>>
    /\ job = [r \in Requests |-> Idle]
    /\ writes = {} /\ lost = {} /\ disturbed = FALSE /\ faults = 0

At(r, step) == job[r].at = step
Exit(r) == job' = [job EXCEPT ![r] = Idle]
Fault == faults < MaxFaults /\ faults' = faults + 1

-----------------------------------------------------------------------------
(* ratelimit.ts.                                                           *)

\* Mutant: a hit that is exactly one window old is dropped.
StrictlyInside(e) == {i \in DOMAIN hits[e] : hits[e][i] + Window > now}

Inside(e) == {i \in DOMAIN hits[e] : hits[e][i] + Window >= now}

\* The hits of the store are dropped up to the first that is young enough.
Pruned(e) ==
    IF Inside(e) = {} THEN <<>>
    ELSE SubSeq(hits[e], CHOOSE i \in Inside(e) : \A j \in Inside(e) : i <= j, Len(hits[e]))

check(e) == Len(Pruned(e)) < Max

-----------------------------------------------------------------------------
(* Signing in: magic-link.ts, resend.ts, session.ts.                       *)

\* The limiter lets the request through, which issues a link.
issue(r, e) ==
    /\ At(r, "idle") /\ Len(links) < MaxLinks
    /\ check(e)
    /\ hits' = [hits EXCEPT ![e] = Append(Pruned(e), now)]
    /\ links' = Append(links, [email |-> e, expiresAt |-> now + LinkTtl, consumedAt |-> Nothing])
    /\ job' = [job EXCEPT ![r] = [Idle EXCEPT !.at = "issued", !.link = Len(links) + 1]]
    /\ UNCHANGED <<now, mailed, cookies, admin, config, bounds>>

Denied(e) ==
    /\ ~check(e)
    /\ hits' = [hits EXCEPT ![e] = Pruned(e)]
    /\ UNCHANGED <<now, links, mailed, cookies, admin, config, job, bounds>>

\* The email, or the line in the log of a server without an email key.
send(r) ==
    /\ At(r, "issued")
    /\ mailed' = mailed \cup {job[r].link}
    /\ Exit(r)
    /\ UNCHANGED <<now, hits, links, cookies, admin, config, bounds>>

\* Mutant: a link that was used is found again.
Found(l) == now < links[l].expiresAt

Consumable(l) == links[l].consumedAt = Nothing /\ now < links[l].expiresAt

\* Mutant: the row is found and not marked.
verifyUnmarked(r, l) ==
    /\ At(r, "idle") /\ l \in mailed
    /\ Consumable(l)
    /\ job' = [job EXCEPT ![r] = [Idle EXCEPT !.at = "verified", !.link = l]]
    /\ UNCHANGED <<now, links, hits, mailed, cookies, admin, config, bounds>>

\* Somebody follows the link; consume marks and returns the row at once.
verify(r, l) ==
    /\ At(r, "idle") /\ l \in mailed
    /\ Consumable(l)
    /\ links' = [links EXCEPT ![l].consumedAt = now]
    /\ job' = [job EXCEPT ![r] = [Idle EXCEPT !.at = "verified", !.link = l]]
    /\ UNCHANGED <<now, hits, mailed, cookies, admin, config, bounds>>

mintSession(r) ==
    /\ At(r, "verified")
    /\ LET l == job[r].link  e == links[l].email
       IN cookies' = cookies \cup {[link |-> l, email |-> e, role |-> members[e],
                                    exp |-> now + SessionTtl, secret |-> Head(secrets)]}
    /\ Exit(r)
    /\ UNCHANGED <<now, hits, links, mailed, admin, config, bounds>>

verifyPayload(c) == (\E i \in DOMAIN secrets : secrets[i] = c.secret) /\ c.exp > now

-----------------------------------------------------------------------------
(* Admin writes: actions.ts.                                               *)

Begin(r, c, a, target) ==
    /\ At(r, "idle")
    /\ Cardinality({q \in Requests : At(q, "allowed")}) + Cardinality(writes) < MaxWrites
    /\ verifyPayload(c) /\ can(c.role, Permission(a))
    /\ job' = [job EXCEPT ![r] = [Idle EXCEPT !.at = "allowed", !.cookie = [c |-> c, at |-> now],
                                              !.change = [action |-> a, target |-> target]]]
    /\ UNCHANGED <<now, auth, admin, config, bounds>>

\* The write; the database gives a policy its version and a token its id.
Apply(r) ==
    LET a == job[r].change.action
        target == CASE a = "policy.save" -> policy + 1
                    [] a = "token.issue" -> Len(tokens) + 1
                    [] a = "token.revoke" -> job[r].change.target
    IN /\ policy' = IF a = "policy.save" THEN target ELSE policy
       /\ tokens' = CASE a = "policy.save" -> tokens
                      [] a = "token.issue" -> Append(tokens, "live")
                      [] a = "token.revoke" -> [tokens EXCEPT ![target] = "revoked"]
       /\ job' = [job EXCEPT ![r].at = "written", ![r].change.target = target]
       /\ writes' = writes \cup {[change |-> [action |-> a, target |-> target],
                                  cookie |-> job[r].cookie.c, at |-> job[r].cookie.at]}

Write(r) ==
    /\ At(r, "allowed")
    /\ Apply(r)
    /\ UNCHANGED <<now, auth, rows, lost, config, bounds>>

\* Mutant: the row names the version the policy has by now.
RowNow(r) ==
    [change |-> [job[r].change EXCEPT !.target = IF job[r].change.action = "policy.save"
                                                 THEN policy ELSE @],
     email |-> job[r].cookie.c.email]

Row(r) == [change |-> job[r].change, email |-> job[r].cookie.c.email]

logAdminAction(r) ==
    /\ At(r, "written")
    /\ rows' = Append(rows, Row(r))
    /\ Exit(r)
    /\ UNCHANGED <<now, auth, policy, tokens, writes, lost, config, bounds>>

-----------------------------------------------------------------------------
(* What goes wrong, and what the operators do.                             *)

\* The write of a request that waits for its log row.
Unlogged(r) == {w \in writes : At(r, "written") /\ w.change = job[r].change
                               /\ w.cookie = job[r].cookie.c}

\* A request fails: a database error, a lost connection, an email refused.
FailRequest(r) ==
    /\ ~At(r, "idle") /\ Fault
    /\ lost' = lost \cup Unlogged(r)
    /\ Exit(r)
    /\ UNCHANGED <<now, auth, policy, tokens, rows, writes, config, disturbed>>

Restart ==
    /\ Fault
    /\ hits' = [e \in Emails |-> <<>>]
    /\ lost' = lost \cup UNION {Unlogged(r) : r \in Requests}
    /\ job' = [r \in Requests |-> Idle]
    /\ disturbed' = TRUE
    /\ UNCHANGED <<now, links, mailed, cookies, policy, tokens, rows, writes, config>>

SetRole(e, role) ==
    /\ role # members[e] /\ Fault
    /\ members' = [members EXCEPT ![e] = role]
    /\ UNCHANGED <<now, auth, admin, secrets, job, disturbed>>

\* A new secret signs, the one before is still accepted.
RotateSecret ==
    /\ Fault
    /\ secrets' = <<secrets[1] + 1, secrets[1]>>
    /\ UNCHANGED <<now, auth, admin, members, job, disturbed>>

Tick ==
    /\ now < MaxTime
    /\ now' = now + 1
    /\ UNCHANGED <<auth, admin, config, job, bounds>>

SetBack ==
    /\ now > 0 /\ Fault
    /\ now' = now - 1
    /\ disturbed' = TRUE
    /\ UNCHANGED <<auth, admin, config, job>>

Step(r) == send(r) \/ mintSession(r) \/ Write(r) \/ logAdminAction(r) \/ FailRequest(r)

AccountsNext ==
    \/ \E r \in Requests : Step(r)
    \/ \E r \in Requests, e \in Emails : issue(r, e)
    \/ \E e \in Emails : Denied(e) \/ \E role \in Roles \cup {Nothing} : SetRole(e, role)
    \/ \E r \in Requests, l \in DOMAIN links : verify(r, l)
    \/ \E r \in Requests, c \in cookies, a \in {"policy.save", "token.issue"} : Begin(r, c, a, 0)
    \/ \E r \in Requests, c \in cookies, n \in DOMAIN tokens : Begin(r, c, "token.revoke", n)
    \/ Restart \/ RotateSecret \/ Tick \/ SetBack

AccountsSpec == AccountsInit /\ [][AccountsNext]_accountsVars

-----------------------------------------------------------------------------
(* Properties.                                                             *)

Issued(l) == links[l].expiresAt - LinkTtl

IssuedWithin(e, t) ==
    Cardinality({l \in DOMAIN links : links[l].email = e /\ Issued(l) <= t /\ t <= Issued(l) + Window})

\* No email is sent more than Max links in any window, its two ends included, and
\* nobody is refused who has not just been: as long as the server runs and its
\* clock is not set back, the limiter counts what was issued.
LimitHolds ==
    ~disturbed => \A e \in Emails :
        /\ \A t \in 0..now : IssuedWithin(e, t) <= Max
        /\ Len(Pruned(e)) = IssuedWithin(e, now)

\* Every admin write goes back to a link: it was made with the only session of a
\* link that was issued to that user and followed in its lifetime, the session had
\* not ended, and the role it was given may do it, whatever requests were doubled,
\* delayed or repeated.
WritesTraceToALink ==
    \A w \in writes :
        LET c == w.cookie  l == links[c.link] IN
        /\ c \in cookies /\ \A d \in cookies : d.link = c.link => d = c
        /\ c.link \in mailed /\ l.email = c.email
        /\ l.consumedAt # Nothing /\ l.consumedAt < l.expiresAt
        /\ w.at < c.exp /\ can(c.role, Permission(w.change.action))

\* The log is true and complete: every row stands for a write of its user, no write
\* but a repeated revoke has two, and a write lacks its row only while its request
\* is at it or when the request failed between the two.
LogIsTrue ==
    /\ \A i \in DOMAIN rows :
           /\ \E w \in writes : w.change = rows[i].change /\ w.cookie.email = rows[i].email
           /\ \A j \in DOMAIN rows \ {i} :
                  rows[j].change # rows[i].change \/ rows[i].change.action = "token.revoke"
    /\ \A w \in writes \ lost :
           \/ \E r \in Requests : w \in Unlogged(r)
           \/ \E i \in DOMAIN rows : rows[i].change = w.change /\ rows[i].email = w.cookie.email
=============================================================================
