---------------------------- MODULE MCProtocols ----------------------------
(* Small instances of the protocols that go on in steps and have to end.  They *)
(* share nothing, so one behaviour is a behaviour of one of them; the fairness  *)
(* of each is asked of it when it is the one that moves.                        *)
EXTENDS ProfileMigration, OperationsJournal, PlatformActivation,
        ReleaseAutomation

CONSTANTS m1, j1, j2, j3, i1, i2, t1

VARIABLE part

allVars == <<part, mVars, jVars, aVars, rVars>>

-----------------------------------------------------------------------------
Command(op, type, item, original) ==
  [op |-> op, type |-> type, item |-> item, original |-> original]

\* An example that is recorded, its undo, and an operation that is asked for with two
\* different commands.
Given ==
  {Command(j1, "feedback.record", i1, None), Command(j2, "feedback.undo", i1, j1),
   Command(j3, "feedback.record", i1, None), Command(j3, "rule.save", i2, None)}

\* What the proofs assume of the constants.
ASSUME ConstantsOfProtocols ==
  /\ JournalAssumption /\ ActivationAssumption
  /\ MigrationAssumption /\ OneMigration

-----------------------------------------------------------------------------
ProtocolsInit ==
  /\ part \in {"migration", "operations", "activation", "release"}
  /\ MigrationInit /\ (part # "migration" => active.version = "source")
  /\ Init /\ ActivationInit /\ ReleaseInit

ProtocolsNext ==
  \/ /\ part = "migration" /\ MigrationNext
     /\ UNCHANGED <<part, jVars, aVars, rVars>>
  \/ /\ part = "operations" /\ Next
     /\ UNCHANGED <<part, mVars, aVars, rVars>>
  \/ /\ part = "activation" /\ ActivationNext
     /\ UNCHANGED <<part, mVars, jVars, rVars>>
  \/ /\ part = "release" /\ ReleaseNext
     /\ UNCHANGED <<part, mVars, jVars, aVars>>

\* The fairness of each of them, see its module.
Fairness ==
  /\ WF_jVars(part = "operations" /\ Tick)
  /\ \A i \in 1 .. 4 : WF_aVars(part = "activation" /\ Reconcile(i))
  /\ WF_aVars(part = "activation" /\ WorkerStarts)
  /\ WF_aVars(part = "activation" /\ (Connect(t1) \/ Receive(t1) \/ LosePort(t1)))

ProtocolsSpec == ProtocolsInit /\ [][ProtocolsNext]_allVars /\ Fairness
=============================================================================
