------------------------------ MODULE GoldRaces ------------------------------
(***************************************************************************)
(* GoldProcessing with a history variable that tells which races between   *)
(* workers matter: overtaken[w] says that, since worker w read the window  *)
(* it is recomputing, somebody else wrote that window's row. The upsert    *)
(* compares nothing (ON CONFLICT DO UPDATE), so such a worker may replace  *)
(* a newer aggregate by its older one; no other worker can.                *)
(***************************************************************************)
EXTENDS MarketWindows

VARIABLE overtaken   \* history: w's window was written after w read it

racesVars == <<vars, overtaken>>

\* A worker that keeps its window is overtaken when the row changes.
Overtakes ==
  overtaken' = [w \in Workers |->
    /\ window'[w] # {}
    /\ window'[w] = window[w]
    /\ \/ overtaken[w]
       \/ \E win \in window[w] : gold'[win] # gold[win]]

RacesInit == Init /\ overtaken = [w \in Workers |-> FALSE]

RacesNext == Next /\ Overtakes

RacesSpec == RacesInit /\ [][RacesNext]_racesVars

FairRacesSpec ==
  /\ RacesSpec
  /\ WF_vars(Tick)
  /\ \A w \in Workers : WF_vars(Step(w)) /\ SF_vars(Discover(w))

----------------------------------------------------------------------------
(* Properties.                                                             *)

\* What a worker that is not overtaken has read is no older than the row it
\* will replace.
FreshUnlessOvertaken ==
  \A w \in Workers : \A win \in window[w] : (gold[win] # NoRow /\ ~overtaken[w]) =>
    /\ gold[win].trades \subseteq events[w]
    /\ row[w] # NoRow => gold[win].computed <= row[w].computed

\* A recomputed window reflects the latest trusted data (gold.py:50-51) with
\* any number of workers, up to exactly one race: a row that loses trades,
\* goes back in time or is reopened was overwritten by a worker which another
\* one overtook between its read and its upsert.
ImprovesUnlessOvertaken ==
  [][\A win \in Windows : gold[win] # NoRow =>
       \/ /\ gold'[win] # NoRow
          /\ gold[win].trades \subseteq gold'[win].trades
          /\ gold[win].computed <= gold'[win].computed
          /\ gold[win].final => gold'[win].final
       \/ \E w \in Workers : overtaken[w] /\ window[w] = {win} /\ gold'[win] = row[w]]_racesVars
=============================================================================
