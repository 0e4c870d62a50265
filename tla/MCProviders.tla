---------------------------- MODULE MCProviders ----------------------------
(* Small instances of the settings panel, which sees of the providers what it  *)
(* needs to save routes, and of the providers' mutations in the worker.        *)
(* One behaviour is a behaviour of one of them; the other stays as it starts.  *)
EXTENDS SettingsPanel, ProviderManagement, TLC

CONSTANTS c1, c2

VARIABLE part

\* The routes from elsewhere: to the cloud at once, or by a fallback that may be executed.
BroughtRoutes == {Route(c1, None, FALSE), Route(c2, c1, TRUE)}

\* What the proofs assume of the constants.
ASSUME ConstantsOfProviders == ProviderAssumption

Symmetry == Permutations(Origins) \cup Permutations(Refs) \cup Permutations(Calls)

ProvidersInit ==
  /\ part \in {"providers", "settings"} /\ Init /\ ManagementInit
  /\ part # "providers" => live = Empty

ProvidersNext ==
  \/ part = "settings" /\ Next /\ UNCHANGED <<part, pVars>>
  \/ part = "providers" /\ ManagementNext /\ UNCHANGED <<part, settingsVars>>

ProvidersSpec == ProvidersInit /\ [][ProvidersNext]_<<part, settingsVars, pVars>>
=============================================================================
