------------------------------ MODULE AnalysisMC ------------------------------
\* What must come about in the two parts of the analysis tool, in one TLC run: the
\* slots of its containers (part "slots") and the charts of one server process
\* (part "charts").  They share no state, so a behaviour is one of either.
EXTENDS WorkerSlots, ChartStore

VARIABLE part

partVars == <<part, vars, chartVars>>

OneServer == [s \in Session |-> CHOOSE p \in Server : TRUE]

PartInit == part \in {"slots", "charts"} /\ Init /\ ChartInit

InSlots(A) == part = "slots" /\ A /\ UNCHANGED <<part, chartVars>>
InCharts(A) == part = "charts" /\ A /\ UNCHANGED <<part, vars>>

PartNext == InSlots(Next) \/ InCharts(ChartNext)

\* The fairness of both specifications.
PartSpec ==
  /\ PartInit /\ [][PartNext]_partVars
  /\ \A r \in Run :
       WF_partVars(InSlots(Step(r))) /\ WF_partVars(InSlots(BoxEnds(r)))
  /\ WF_partVars(InSlots(Tick))
  /\ \A p \in Server :
       /\ WF_partVars(InCharts(WriterStep(p))) /\ SF_partVars(InCharts(ExpirerStep(p)))
       /\ WF_partVars(InCharts(alive[p] = "closing" /\ Dies(p)))
  /\ SF_partVars(InCharts(ChartTick))
=============================================================================
