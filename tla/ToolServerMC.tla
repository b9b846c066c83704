---------------------------- MODULE ToolServerMC ----------------------------
\* The tool server's surroundings in one TLC run: the charts of two server processes
\* (part "charts"), the senders' searches in one of them (part "memory"), and the
\* live trial of the charts with its rollback (part "trial").  They share no state,
\* so a behaviour is one of the three.
EXTENDS ChartStoreMC, SearchMemoryMC, ChartTrialMC

VARIABLE part

partVars == <<part, chartVars, memVars, trialVars>>

PartInit == part \in {"charts", "memory", "trial"} /\ ChartInit /\ MemInit /\ TrialInit

PartNext ==
  \/ part = "charts" /\ ChartNext /\ UNCHANGED <<part, memVars, trialVars>>
  \/ part = "memory" /\ MemNext /\ UNCHANGED <<part, chartVars, trialVars>>
  \/ part = "trial" /\ TrialNext /\ UNCHANGED <<part, chartVars, memVars>>

\* The types of the three parts.
PartTypeOK == ChartTypeOK /\ MemTypeOK /\ TrialTypeOK

PartSpec == PartInit /\ [][PartNext]_partVars
=============================================================================
