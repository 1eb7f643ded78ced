--------------------------- MODULE MCTranslation ---------------------------
(***************************************************************************)
(* The translations into SOQL: of a query's plan, of its conjuncts, and of *)
(* what the functions on the metadata engine are asked, reports among it.  *)
(* They share no state, so each behaviour is of one of them (asked), and   *)
(* the others keep a state they may start in.                              *)
(***************************************************************************)
EXTENDS MCScanPlan, MCSoql, MCReportBridge

VARIABLE asked

PlanIdle ==
  /\ settings = CHOOSE s \in Settings : TRUE
  /\ query = CHOOSE q \in Queries : q.aggregate = NoAggregate
  /\ Init

PushdownIdle == conjuncts = << >> /\ PushdownInit

BridgeIdle == down = {} /\ BridgeInit

TranslationInit ==
  \/ asked = "plan" /\ PushdownIdle /\ BridgeIdle /\ Init
  \/ asked = "conjuncts" /\ PlanIdle /\ BridgeIdle /\ PushdownInit
  \/ asked = "metadata" /\ PlanIdle /\ PushdownIdle /\ BridgeInit

OfPlan == UNCHANGED <<asked, pushdownVars, allVars>>

OfConjuncts == UNCHANGED <<asked, vars, allVars>>

OfMetadata == UNCHANGED <<asked, vars, pushdownVars>>

(* A call begins where the last has returned, as each of them checks. *)
NewCall == asked = "metadata" /\ status = "idle"

TranslationNext ==
  \/ asked = "plan" /\ FilterHook /\ OfPlan
  \/ asked = "plan" /\ AggregateRewrite /\ OfPlan
  \/ asked = "plan" /\ BeginInit /\ OfPlan
  \/ asked = "plan" /\ RunAggregate /\ OfPlan
  \/ asked = "plan" /\ ResolveAuto /\ OfPlan
  \/ asked = "plan" /\ ApplyGuards /\ OfPlan
  \/ asked = "plan" /\ PushCount /\ OfPlan
  \/ asked = "plan" /\ StartRest /\ OfPlan
  \/ asked = "plan" /\ StartBulk /\ OfPlan
  \/ asked = "plan" /\ Planned /\ OfPlan
  \/ asked = "conjuncts" /\ TranslateNext /\ OfConjuncts
  \/ asked = "conjuncts" /\ RefuseId /\ OfConjuncts
  \/ asked = "conjuncts" /\ PushNothing /\ OfConjuncts
  \/ asked = "conjuncts" /\ PushWhere /\ OfConjuncts
  \/ asked = "conjuncts" /\ Done /\ OfConjuncts
  \/ asked = "metadata" /\ GraphStep /\ OfMetadata
  \/ NewCall /\ (\E o \in Objects : RefreshObject(o)) /\ OfMetadata
  \/ asked = "metadata" /\ RefreshCatalog /\ OfMetadata
  \/ asked = "metadata" /\ ReturnRows /\ OfMetadata
  \/ asked = "metadata" /\ SchemaChanges /\ OfMetadata
  \/ NewCall /\ (\E r \in Reports : ReportSoqlBind(r)) /\ OfMetadata
  \/ asked = "metadata" /\ ResolveBase /\ OfMetadata
  \/ asked = "metadata" /\ BaseNotValidated /\ OfMetadata
  \/ asked = "metadata" /\ SkipBase /\ OfMetadata
  \/ asked = "metadata" /\ ResolveColumn /\ OfMetadata
  \/ asked = "metadata" /\ ColumnsDone /\ OfMetadata
  \/ asked = "metadata" /\ TranslateFilter /\ OfMetadata
  \/ asked = "metadata" /\ FinishSoql /\ OfMetadata
  \/ NewCall /\ (\E s \in Samples : ReportBind(s)) /\ OfMetadata
  \/ NewCall /\ (\E o \in Objects : MetaFieldsBind(o)) /\ OfMetadata
  \/ asked = "metadata" /\ MetaObjectsBind /\ OfMetadata
  \/ NewCall /\ (\E snap \in Snapshots : ExplainBind(snap)) /\ OfMetadata
  \/ asked = "metadata" /\ RequestFails /\ OfMetadata

TranslationSpec ==
  TranslationInit /\ [][TranslationNext]_<<asked, vars, pushdownVars, allVars>>
=============================================================================
