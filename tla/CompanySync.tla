---------------------------- MODULE CompanySync ----------------------------
(***************************************************************************)
(* syncOrganizationToHubspot of apps/worker: the company that stands for   *)
(* one organization at HubSpot.  It is run by the CRM jobs, by workflow    *)
(* steps and by the health score job, with no lock between them, and each  *)
(* is tried once.                                                          *)
(***************************************************************************)
EXTENDS Naturals, FiniteSets

CONSTANT CrmSync

ASSUME CrmConstants == IsFiniteSet(CrmSync)

CrmStep == {"new", "post", "patch", "store", "done"}

VARIABLES
  company,  \* [made, known]: companies at HubSpot; hubspotCompanyId is stored
  crm,      \* [CrmSync -> CrmStep]
  crmLate   \* synchronizations that overlap one that makes a company, or follow a lost id

crmVars == <<company, crm, crmLate>>

CrmInit ==
  /\ company = [made |-> 0, known |-> FALSE]
  /\ crm = [c \in CrmSync |-> "new"] /\ crmLate = {}

\* loadOrganizationSnapshot reads the id of the company, if any.
LoadSnapshot(c) ==
  /\ crm[c] = "new"
  /\ crm' = [crm EXCEPT ![c] = IF company.known THEN "patch" ELSE "post"]
  /\ crmLate' = IF \E d \in CrmSync : crm[d] = "store" THEN crmLate \cup {c} ELSE crmLate
  /\ UNCHANGED <<company>>

\* upsertCompany: HubSpot makes a company, or refuses, or its answer is lost.
PostCompany(c) ==
  /\ crm[c] = "post"
  /\ \/ /\ company' = [company EXCEPT !.made = @ + 1]
        /\ crmLate' = crmLate \cup {d \in CrmSync \ {c} : crm[d] = "post"}
        /\ crm' = [crm EXCEPT ![c] = "store"]
     \/ company' = [company EXCEPT !.made = @ + 1]
        /\ crmLate' = CrmSync /\ crm' = [crm EXCEPT ![c] = "done"]
     \/ UNCHANGED <<company, crmLate>> /\ crm' = [crm EXCEPT ![c] = "done"]

PatchCompany(c) ==
  /\ crm[c] = "patch" /\ crm' = [crm EXCEPT ![c] = "done"]
  /\ UNCHANGED <<company, crmLate>>

\* Mutant: the id of a company that was just made is not stored.
MutantForgetsCompany(c) ==
  /\ crm[c] = "store" /\ crm' = [crm EXCEPT ![c] = "done"]
  /\ UNCHANGED <<company, crmLate>>

\* The event of the synchronization, then the id, or a failure of either; a
\* synchronization that starts in between makes another company.
StoreCompany(c) ==
  /\ crm[c] = "store" /\ crm' = [crm EXCEPT ![c] = "done"]
  /\ \/ company' = [company EXCEPT !.known = TRUE] /\ UNCHANGED crmLate
     \/ UNCHANGED company /\ crmLate' = CrmSync

CrmNext == \E c \in CrmSync : LoadSnapshot(c) \/ PostCompany(c) \/ PatchCompany(c) \/ StoreCompany(c)

CrmSpec == CrmInit /\ [][CrmNext]_crmVars

-----------------------------------------------------------------------------
CrmTypeOK ==
  /\ company \in [made: 0..Cardinality(CrmSync), known: BOOLEAN]
  /\ crm \in [CrmSync -> CrmStep] /\ crmLate \subseteq CrmSync

\* A second company is made only by synchronizations that overlapped, or after
\* one that could not tell or store the company it made.
OneCompany ==
  [][\A c \in CrmSync :
       PostCompany(c) /\ company.made > 0 /\ company'.made > company.made => c \in crmLate]_crmVars
=============================================================================
