------------------------------ MODULE Endpoint ------------------------------
(* The connection to the model (operations/llm_endpoint.py).  The screen     *)
(* saves it in the operations database, which is what counts, and then       *)
(* writes the file models.json the harness pi reads its address from; the    *)
(* worker takes the row over at the start of every tick and names its model  *)
(* to pi.                                                                    *)

EXTENDS Naturals

CONSTANTS
  Endpoints,   \* what operators may enter
  Seed,        \* what the settings file says
  Remote,      \* those with an address outside
  Unset,       \* those without an address or a model
  Webs,
  None

ASSUME EndpointAssumption ==
  /\ Seed \in Endpoints
  /\ Remote \subseteq Endpoints
  /\ Unset \subseteq Endpoints
  /\ None \notin Endpoints

VARIABLES
  exposed,   \* does this run touch real data?
  row,       \* the row of llm_endpoint
  file,      \* the endpoint models.json was made from
  saving,    \* the endpoint a web thread has committed and not yet written
  shown,     \* what the page of the last save said about the file
  using,     \* the worker's settings in this tick
  orderly    \* did the last save begin alone, and did nothing happen to it or
             \* to the file since?

endpointVars == <<exposed, row, file, saving, shown, using, orderly>>

EndpointInit ==
  /\ exposed \in BOOLEAN
  /\ row = None
  /\ file = None
  /\ saving = [w \in Webs |-> None]
  /\ shown = "fine"
  /\ using = Seed
  /\ orderly = TRUE

-----------------------------------------------------------------------------

\* current: the row, or the settings file where there is none.
Current == IF row = None THEN Seed ELSE row

\* check and assert_endpoint_allowed: an address outside needs a permission,
\* which Remote endpoints come with, and a run without real data.
Allowed(e) == e \in Remote => ~exposed

\* save: the policy is asked first, then the row is committed ...
SaveRow(w, e) ==
  /\ saving[w] = None
  /\ Allowed(e)
  /\ row' = e
  /\ saving' = [saving EXCEPT ![w] = e]
  /\ orderly' = (\A v \in Webs : saving[v] = None)
  /\ UNCHANGED <<exposed, file, shown, using>>

\* A fault: an error at the file is swallowed.
WriteFileQuietly(w) ==
  /\ saving[w] # None
  /\ saving' = [saving EXCEPT ![w] = None]
  /\ shown' = "fine"
  /\ \/ saving[w] \notin Unset /\ file' = saving[w]
     \/ UNCHANGED file
  /\ UNCHANGED <<exposed, row, using, orderly>>

\* ... and the file is made from what was saved, if that names a model; an
\* error is shown on the page.
WriteFile(w) ==
  /\ saving[w] # None
  /\ saving' = [saving EXCEPT ![w] = None]
  /\ \/ saving[w] \in Unset /\ shown' = "fine" /\ UNCHANGED file
     \/ saving[w] \notin Unset /\ shown' = "fine" /\ file' = saving[w]
     \/ saving[w] \notin Unset /\ shown' = "old file" /\ UNCHANGED file
  /\ UNCHANGED <<exposed, row, using, orderly>>

\* The web process ends between the two.
CutOff(w) ==
  /\ saving[w] # None
  /\ saving' = [saving EXCEPT ![w] = None]
  /\ orderly' = FALSE
  /\ UNCHANGED <<exposed, row, file, shown, using>>

\* asd sync-harness: the file is made from the settings file, not the row.
SyncHarness ==
  /\ Allowed(Seed)
  /\ Seed \notin Unset
  /\ file' = Seed
  /\ orderly' = FALSE
  /\ UNCHANGED <<exposed, row, saving, shown, using>>

\* _refresh_endpoint, at the start of the tick.
RefreshEndpoint ==
  /\ using' = Current
  /\ UNCHANGED <<exposed, row, file, saving, shown, orderly>>

EndpointNext ==
  \/ \E w \in Webs :
       \/ \E e \in Endpoints : SaveRow(w, e)
       \/ WriteFile(w) \/ CutOff(w)
  \/ SyncHarness \/ RefreshEndpoint

EndpointSpec == EndpointInit /\ [][EndpointNext]_endpointVars

-----------------------------------------------------------------------------
(* Properties *)

\* When the row names a model and the file was made from something else, the
\* operator was told on the page of the last save: the worker does not go on
\* with an old address unseen (SaveResult).  So it is once a save ran alone, in
\* whatever state earlier saves that overlapped, or were cut off, or a
\* sync-harness left row and file.  And what the harness was given the policy
\* allows, always.
OldFileIsSaid ==
  /\ file # None => Allowed(file)
  /\ (/\ orderly
      /\ \A w \in Webs : saving[w] = None
      /\ row \notin Unset \union {None}
      /\ file # row) => shown = "old file"

=============================================================================
