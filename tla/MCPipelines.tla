---------------------------- MODULE MCPipelines ----------------------------
(***************************************************************************)
(* One lead that comes in through the Page of one tenant and the campaign  *)
(* of another, and one WhatsApp message. Focus leaves out the products of  *)
(* what does not meet: WhatsApp and the rest, the publishing of different  *)
(* invocations, the tenant half of the sweep (checked in LeadIngestion), a *)
(* lapsed entitlement and the work of others, and what follows a claim     *)
(* that was left behind, which excuses everything after it.                *)
(***************************************************************************)
EXTENDS Pipelines, TLC

CONSTANTS PageOwner, CampaignOwner

MCOwners == [l \in Leads |-> {PageOwner}]
MCRoutes == [l \in Leads |-> {CampaignOwner}]
MCSelected == [m \in Messages |-> {CampaignOwner}]

OnlyMeta == sent = {} /\ resend.pc = "idle"
OnlyWhatsApp == submitted = {} /\ scan.pc = "idle"

Capturing == (\E h \in Hooks : hook[h].pc # "idle") \/ (\E c \in Calls : call[c].pc # "idle")
Working == (\E w \in Workers : worker[w].pc # "idle") \/ (\E j \in Jobs : job[j].pc # "idle")

Unclaimed ==
    /\ \A w \in Workers : worker[w].pc = "idle"
    /\ \A j \in Jobs : job[j].pc \in {"idle", "entitlement", "blocked"}
    /\ \A w \in Writers : writer[w].pc \in {"idle", "entitlement", "blocked"}
    /\ scan.pc = "idle" /\ resend.pc = "idle" /\ \A h \in Hooks : hook[h].pc = "idle"

Unheard(j) == job[j].pc # "idle" /\ ~job[j].heard

Focus ==
    /\ OnlyMeta \/ OnlyWhatsApp
    /\ Capturing => ~Working /\ scan.pc = "idle"
    /\ sweep.pc = "idle"
    /\ blocked \subseteq {CampaignOwner}
    /\ blocked # {} => Unclaimed
    /\ (\E j \in Jobs : Unheard(j)) => scan.pc = "idle"
    /\ resend.pc # "idle" => \A r \in Receivers : receiver[r].pc = "idle"
    /\ (\E w \in Writers : writer[w].pc # "idle" /\ ~writer[w].heard) => resend.pc = "idle"
    /\ abandoned = {} /\ forsaken = {}

Symmetry == Permutations(Writers) \cup Permutations(Jobs)
=============================================================================
