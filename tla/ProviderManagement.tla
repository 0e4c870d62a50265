------------------------- MODULE ProviderManagement -------------------------
(* The providers of models, their catalog, consents and credentials.  The      *)
(* service worker keeps them in memory (live) and in the database (stored).  A *)
(* mutation works on a fork of what is in memory, saves the fork, and then      *)
(* takes it as what is in memory (service.ts, #mutate): mutations overlap, and  *)
(* so do the imports and the sync commits that write the database only.        *)
EXTENDS Nothing, Naturals, FiniteSets

CONSTANTS
  ProviderIds,  \* the provider configurations (providerConfigId)
  Origins,      \* the endpoint origins
  Refs,         \* the references of credentials, each drawn once
  Calls,        \* the messages the worker handles at once
  Keyless,      \* the configurations whose requests carry no credential
  Listed,       \* the configurations of a kind that lists its models
  MaxPages,     \* the pages of a catalog that are read
  MaxMutations, \* bounds the calls
  MaxImports,   \* bounds the writes of the database by an import or a sync
  MaxStops      \* bounds the restarts of the worker

VARIABLES
  live,       \* the registries, the catalog, the consents and the vault in memory
  stored,     \* the same in the database
  call,       \* the mutation each message is at
  permitted,  \* the origins the browser lets the extension reach
  issued,     \* the references already drawn
  disconnected, \* the configurations whose disconnection was saved, until they are used again
  mutations, imports, stops

pVars == <<live, stored, call, permitted, issued, disconnected, mutations, imports, stops>>

Failures == {"unauthorized", "rate-limited", "locked", "degraded"}
ProviderStatuses == Failures \cup {"unconfigured", "ready", "revoked"}
Modes == {"session-only", "passphrase-wrapped", "external-vault"}
ModelStatuses == {"user", "available", "unavailable"}
Absent == [status |-> "absent", origin |-> None, ref |-> None]

Providers == [status : ProviderStatuses, origin : Origins, ref : Refs \cup {None}]
Credentials == [config : ProviderIds, origin : Origins, mode : Modes]

\* What is in memory.  A credential that is not in the vault has no record, and
\* values holds the references whose secret can be used.
States == [providers : [ProviderIds -> Providers \cup {Absent}],
           models : [ProviderIds -> ModelStatuses \cup {"absent"}],
           consents : SUBSET (ProviderIds \X Origins),
           credentials : UNION {[S -> Credentials] : S \in SUBSET Refs},
           values : SUBSET Refs]

Empty == [providers |-> [p \in ProviderIds |-> Absent], models |-> [p \in ProviderIds |-> "absent"],
          consents |-> {}, credentials |-> [x \in {} |-> None], values |-> {}]

\* The secrets of a session are never written (durableSnapshot).
Durable(s) == [s EXCEPT !.values = {}]

NoCall == [phase |-> "idle"]

\* A reference and an origin are something.
ProviderAssumption == None \notin Refs \cup Origins

-----------------------------------------------------------------------------
(* The registries (ai/providers, ai/models, security/credentials).            *)

Known(s, p) == s.providers[p] # Absent

Upsert(s, p, provider) == [s EXCEPT !.providers[p] = provider]

Unregister(s, p) == [s EXCEPT !.providers[p] = Absent]

RemoveModels(s, p) == [s EXCEPT !.models[p] = "absent"]

GrantReceipt(s, p) == [s EXCEPT !.consents = @ \cup {<<p, s.providers[p].origin>>}]

\* A slip: the consents stay.
SlipRevokeConsents(s, p) == s

RevokeConsents(s, p) == [s EXCEPT !.consents = {k \in @ : k[1] # p}]

\* A credential is bound to its provider and to the endpoint; only the secret of a
\* session can be used before it is unlocked.
StoreCredential(s, p, x, mode) ==
  LET binding == [config |-> p, origin |-> s.providers[p].origin, mode |-> mode]
  IN [s EXCEPT !.credentials = [y \in DOMAIN @ \cup {x} |-> IF y = x THEN binding ELSE @[y]],
               !.values = IF mode = "session-only" THEN @ \cup {x} ELSE @]

\* A slip: the record goes, the secret stays.
SlipRemoveCredential(s, x) ==
  [s EXCEPT !.credentials = [y \in DOMAIN @ \ {x} |-> @[y]]]

RemoveCredential(s, x) ==
  [s EXCEPT !.credentials = [y \in DOMAIN @ \ {x} |-> @[y]], !.values = @ \ {x}]

\* The secret can be used: it is there, and bound to this provider and endpoint.
Usable(s, p) ==
  LET x == s.providers[p].ref
  IN /\ x \in DOMAIN s.credentials /\ x \in s.values
     /\ s.credentials[x].config = p /\ s.credentials[x].origin = s.providers[p].origin

SetReference(s, p, x) == Upsert(s, p, [s.providers[p] EXCEPT !.ref = x, !.status = "locked"])

Revoke(s, p) == Upsert(s, p, [s.providers[p] EXCEPT !.ref = None, !.status = "revoked"])

RecordTest(s, p, status) == Upsert(s, p, [s.providers[p] EXCEPT !.status = status])

\* Another configuration that is not revoked has this origin.
StillUsed(s, p, o) ==
  \E q \in ProviderIds \ {p} : s.providers[q].origin = o /\ s.providers[q].status # "revoked"

\* The new credential is stored, the provider refers to it, the one it had is
\* removed, and the consents go.
ReplaceCredential(s, p, x, mode) ==
  RevokeConsents(RemoveCredential(SetReference(StoreCredential(s, p, x, mode), p, x),
                                  s.providers[p].ref), p)

\* The registries, the catalog, the consents and the vault agree: what the schema
\* of the stored state asks.
Agrees(s) ==
  /\ \A p \in ProviderIds : LET x == s.providers[p].ref IN
       x # None => x \in DOMAIN s.credentials /\ s.credentials[x].config = p
                   /\ s.credentials[x].origin = s.providers[p].origin
  /\ \A x \in DOMAIN s.credentials : LET b == s.credentials[x] IN
       s.providers[b.config].origin = b.origin
  /\ \A k \in s.consents : s.providers[k[1]].origin = k[2]
  /\ \A p \in ProviderIds : s.models[p] # "absent" => Known(s, p)

-----------------------------------------------------------------------------
(* A request to a provider and what a connection test makes of it.            *)

\* What a request can end with: the refusals of the endpoint, a redirect or an
\* answer of the wrong kind, a timeout, an unreachable host.
RequestErrors ==
  {"http-401", "http-402", "http-403", "http-404", "http-408", "http-429",
   "response-invalid", "output-invalid", "timeout", "unreachable"}

\* The plan is refused for a revoked provider, and the credential is asked of the
\* vault before anything is sent.
RequestOutcomes(s, p) ==
  CASE s.providers[p].status = "revoked" -> {"request-unavailable"}
    [] p \notin Keyless /\ s.providers[p].ref = None -> {"credential-unavailable"}
    [] p \notin Keyless /\ ~Usable(s, p) -> {"credential-locked"}
    [] OTHER -> RequestErrors \cup {"answered"}

CodeOf(error) ==
  CASE error = "answered" -> "ready"
    [] error \in {"permission-denied", "credential-unavailable", "credential-locked"} -> error
    [] error = "http-401" -> "authentication-failed"
    [] error = "http-402" -> "quota-exhausted"
    [] error = "http-403" -> "authorization-failed"
    [] error = "http-404" -> "model-unavailable"
    [] error \in {"http-408", "timeout"} -> "timeout"
    [] error = "http-429" -> "rate-limited"
    [] error = "output-invalid" -> "schema-invalid"
    [] error = "unreachable" -> "host-unreachable"
    [] OTHER -> "protocol-invalid"

StatusForFailure(code) ==
  CASE code \in {"authentication-failed", "authorization-failed"} -> "unauthorized"
    [] code \in {"rate-limited", "quota-exhausted"} -> "rate-limited"
    [] code \in {"permission-denied", "credential-locked", "credential-unavailable"} -> "locked"
    [] OTHER -> "degraded"

\* The statuses a connection test can give the provider.
TestOutcomes(s, p) ==
  LET errors == IF s.providers[p].origin \in permitted THEN RequestOutcomes(s, p)
                ELSE {"permission-denied"}
  IN {IF CodeOf(e) = "ready" THEN "ready" ELSE StatusForFailure(CodeOf(e)) : e \in errors}

\* The catalog may be asked: the kind lists its models, the browser permits it, and
\* the credential can be used.
MayList(s, p) ==
  /\ p \in Listed /\ s.providers[p].status # "revoked" /\ s.providers[p].origin \in permitted
  /\ p \in Keyless \/ Usable(s, p)

\* What the provider named is available, the rest of what it once named is not; a
\* model of the user that it names is a conflict, and nothing is taken.
Synchronized(s, p, named) ==
  [s EXCEPT !.models[p] = IF named THEN "available" ELSE IF @ = "available" THEN "unavailable" ELSE @]

-----------------------------------------------------------------------------
(* The mutations.                                                             *)

\* A message is handled: the mutation runs on a fork of what is in memory.
Fork(c, p, op, phase, draft, dropped) ==
  /\ call[c] = NoCall /\ mutations < MaxMutations
  /\ call' = [call EXCEPT ![c] = [phase |-> phase, op |-> op, config |-> p, draft |-> draft,
                                  dropped |-> dropped, pages |-> 0, overtaken |-> FALSE]]
  /\ mutations' = mutations + 1
  /\ disconnected' = IF op \in {"disconnect", "remove"} THEN disconnected ELSE disconnected \ {p}
  /\ UNCHANGED <<live, stored, permitted, imports, stops>>

Register(c, p, o) ==
  /\ ~Known(live, p)
  /\ Fork(c, p, "register", "saving",
          Upsert(live, p, [status |-> "unconfigured", origin |-> o, ref |-> None]), None)
  /\ UNCHANGED issued

RegisterModel(c, p) ==
  /\ Known(live, p)
  /\ Fork(c, p, "model", "saving", [live EXCEPT !.models[p] = "user"], None)
  /\ UNCHANGED issued

\* Another endpoint takes neither the credential nor the consents with it.
UpdateProvider(c, p, o) ==
  /\ Known(live, p)
  /\ LET old == live.providers[p]
         rebound == Upsert(RevokeConsents(RemoveCredential(live, old.ref), p), p,
                           [status |-> "unconfigured", origin |-> o, ref |-> None])
     IN Fork(c, p, "update", "saving", IF o = old.origin THEN live ELSE rebound,
             IF o = old.origin \/ StillUsed(live, p, old.origin) THEN None ELSE old.origin)
  /\ UNCHANGED issued

RemoveProvider(c, p) ==
  /\ Known(live, p)
  /\ LET old == live.providers[p]
         rest == RemoveModels(RevokeConsents(RemoveCredential(live, old.ref), p), p)
     IN Fork(c, p, "remove", "saving", Unregister(rest, p),
             IF StillUsed(live, p, old.origin) THEN None ELSE old.origin)
  /\ UNCHANGED issued

GrantConsent(c, p) ==
  /\ Known(live, p)
  /\ Fork(c, p, "consent", "saving", GrantReceipt(live, p), None) /\ UNCHANGED issued

\* A disconnected provider stays, revoked and without its credential.
Disconnect(c, p) ==
  /\ Known(live, p)
  /\ LET old == live.providers[p]
     IN Fork(c, p, "disconnect", "saving",
             Revoke(RevokeConsents(RemoveCredential(live, old.ref), p), p),
             IF StillUsed(live, p, old.origin) THEN None ELSE old.origin)
  /\ UNCHANGED issued

\* A credential of the session or of an external vault is stored at once, one that
\* is wrapped by a passphrase after the key was derived.
SetCredential(c, p, mode) ==
  /\ Known(live, p) /\ p \notin Keyless
  /\ \E x \in Refs \ issued :
       /\ issued' = issued \cup {x}
       /\ Fork(c, p, "credential", IF mode = "passphrase-wrapped" THEN "wrapping" ELSE "saving",
               ReplaceCredential(live, p, x, mode), None)

Wrapped(c) ==
  /\ call[c].phase = "wrapping"
  /\ call' = [call EXCEPT ![c].phase = "saving"]
  /\ UNCHANGED <<live, stored, permitted, issued, disconnected, mutations, imports, stops>>

\* A connection test waits for the browser and for the network.
TestConnection(c, p) ==
  /\ Known(live, p) /\ Fork(c, p, "test", "testing", live, None) /\ UNCHANGED issued

Tested(c) ==
  /\ call[c].phase = "testing"
  /\ \E status \in TestOutcomes(call[c].draft, call[c].config) :
       call' = [call EXCEPT ![c].phase = "saving",
                            ![c].draft = RecordTest(@, call[c].config, status)]
  /\ UNCHANGED <<live, stored, permitted, issued, disconnected, mutations, imports, stops>>

\* A refresh of the catalog reads one page after the other.
RefreshCatalog(c, p) ==
  /\ Known(live, p) /\ Fork(c, p, "refresh", "paging", live, None) /\ UNCHANGED issued

NextPage(c) ==
  /\ call[c].phase = "paging" /\ MayList(call[c].draft, call[c].config)
  /\ call[c].pages + 1 < MaxPages
  /\ call' = [call EXCEPT ![c].pages = @ + 1]
  /\ UNCHANGED <<live, stored, permitted, issued, disconnected, mutations, imports, stops>>

LastPage(c) ==
  /\ call[c].phase = "paging" /\ MayList(call[c].draft, call[c].config)
  /\ \E named \in BOOLEAN :
       /\ ~(named /\ call[c].draft.models[call[c].config] = "user")
       /\ call' = [call EXCEPT ![c].phase = "saving",
                               ![c].draft = Synchronized(@, call[c].config, named)]
  /\ UNCHANGED <<live, stored, permitted, issued, disconnected, mutations, imports, stops>>

\* The mutation throws: no permission, no credential, an answer that is refused, a
\* page too many.  The fork is dropped.
Throws(c) ==
  /\ call[c].phase \in {"wrapping", "paging", "saving"}
  /\ call' = [call EXCEPT ![c] = NoCall]
  /\ UNCHANGED <<live, stored, permitted, issued, disconnected, mutations, imports, stops>>

\* The fork is stored, and only then taken as what is in memory.
SaveFork(c) ==
  /\ call[c].phase = "saving" /\ Agrees(call[c].draft)
  /\ stored' = Durable(call[c].draft) /\ live' = call[c].draft
  /\ call' = [d \in Calls |->
       IF d = c THEN IF call[c].dropped = None THEN NoCall ELSE [call[c] EXCEPT !.phase = "dropping"]
       ELSE IF call[d] = NoCall THEN NoCall ELSE [call[d] EXCEPT !.overtaken = TRUE]]
  /\ disconnected' = IF call[c].op \in {"disconnect", "remove"}
                     THEN disconnected \cup {call[c].config} ELSE disconnected
  /\ UNCHANGED <<permitted, issued, mutations, imports, stops>>

\* The permission of an origin nobody used is given back.
DropPermission(c) ==
  /\ call[c].phase = "dropping"
  /\ permitted' = permitted \ {call[c].dropped} /\ call' = [call EXCEPT ![c] = NoCall]
  /\ UNCHANGED <<live, stored, issued, disconnected, mutations, imports, stops>>

-----------------------------------------------------------------------------
(* Around the service.                                                        *)

\* The user lets the extension reach the origin of a provider (settings panel).
AskPermission(o) ==
  /\ o \notin permitted /\ \E p \in ProviderIds : live.providers[p].origin = o
  /\ permitted' = permitted \cup {o}
  /\ UNCHANGED <<live, stored, call, issued, disconnected, mutations, imports, stops>>

\* An import replaces the tables: what it brings is locked and has no credential,
\* and nobody tells the worker.
ImportReplace(S, o) ==
  /\ imports < MaxImports /\ imports' = imports + 1
  /\ stored' = [Empty EXCEPT !.providers = [p \in ProviderIds |->
       IF p \in S THEN [status |-> "locked", origin |-> o, ref |-> None] ELSE Absent]]
  /\ UNCHANGED <<live, call, permitted, issued, disconnected, mutations, stops>>

\* The worker is stopped and starts again from the database.
Restart ==
  /\ stops < MaxStops /\ stops' = stops + 1
  /\ live' = stored /\ call' = [c \in Calls |-> NoCall]
  /\ UNCHANGED <<stored, permitted, issued, disconnected, mutations, imports>>

\* The worker starts with nothing, or with a provider that was registered and
\* consented to before.
Registered(S, o) ==
  [Empty EXCEPT !.providers = [p \in ProviderIds |->
                   IF p \in S THEN [status |-> "unconfigured", origin |-> o, ref |-> None] ELSE Absent],
                !.consents = S \X {o}]

ManagementInit ==
  /\ \E S \in {{}} \cup {{p} : p \in ProviderIds}, o \in Origins : live = Registered(S, o)
  /\ stored = live /\ call = [c \in Calls |-> NoCall]
  /\ permitted = {} /\ issued = {} /\ disconnected = {}
  /\ mutations = 0 /\ imports = 0 /\ stops = 0

Mutation(c) ==
  \/ \E p \in ProviderIds :
       \/ \E o \in Origins : Register(c, p, o) \/ UpdateProvider(c, p, o)
       \/ RegisterModel(c, p) \/ RemoveProvider(c, p) \/ GrantConsent(c, p) \/ Disconnect(c, p)
       \/ \E mode \in Modes : SetCredential(c, p, mode)
       \/ TestConnection(c, p) \/ RefreshCatalog(c, p)
  \/ Wrapped(c) \/ Tested(c) \/ NextPage(c) \/ LastPage(c)
  \/ Throws(c) \/ SaveFork(c) \/ DropPermission(c)

ManagementNext ==
  \/ \E c \in Calls : Mutation(c)
  \/ \E o \in Origins : AskPermission(o)
  \/ \E S \in SUBSET ProviderIds, o \in Origins : ImportReplace(S, o)
  \/ Restart

ManagementSpec == ManagementInit /\ [][ManagementNext]_pVars

-----------------------------------------------------------------------------
\* No credential is kept that no provider refers to, and no secret without one.
NoOrphan(s) ==
  /\ \A x \in DOMAIN s.credentials : s.providers[s.credentials[x].config].ref = x
  /\ s.values \subseteq DOMAIN s.credentials

\* Every state the worker or the database holds is well formed, agrees and keeps no
\* orphan.
ManagementTypeOK ==
  /\ \A s \in {live, stored} \cup {call[c].draft : c \in {d \in Calls : call[d] # NoCall}} :
       s \in States /\ Agrees(s) /\ NoOrphan(s)
  /\ stored.values = {} /\ permitted \subseteq Origins /\ issued \subseteq Refs
  /\ \A c \in Calls : call[c].phase \in {"idle", "wrapping", "testing", "paging", "saving", "dropping"}

\* Nothing is left of a provider that was disconnected or removed, in memory or in
\* the database.
Gone(p) ==
  \A s \in {live, stored} : s.providers[p].ref = None /\ \A k \in s.consents : k[1] # p

\* A provider that was disconnected or removed has no credential and no consent
\* until it is used again (docs/08-storage.md:129).
DisconnectHolds == \A p \in disconnected : Gone(p)

\* A save that began before another one ended.
SavesOvertaken(c) == call[c].phase = "saving" /\ call[c].overtaken /\ live' # live

\* Nothing is left of a provider once it was disconnected or removed, until it is used
\* again, unless the save of a mutation that another one overtook brings it back: the
\* fork it saves is older (service.ts, #mutate).
UndoneByOvertakenOnly ==
  [][\A p \in disconnected' : Gone(p)' \/ (p \in disconnected /\ ~Gone(p))
       \/ \E c \in Calls : SavesOvertaken(c)]_<<live, stored, call, disconnected>>

=============================================================================
