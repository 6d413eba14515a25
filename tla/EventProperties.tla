--------------------------- MODULE EventProperties ----------------------------
(***************************************************************************)
(* What clients of the event queries may rely on, while the index grows    *)
(* and loses its oldest events under them.                                 *)
(***************************************************************************)
EXTENDS EventQueries

\* Every variable has its type.
TypeOK ==
  /\ arrived \in SUBSET Events
  /\ cut \in 0 .. LastEvent
  /\ ask \in [Clients -> Asks]
  /\ begin \in [Clients -> SUBSET Events]
  /\ phase \in [Clients -> {"asking", "complete", "downloaded", "checked", "failed"}]
  /\ at \in [Clients -> Nat]
  /\ status \in [Clients -> {0, 200, 400, 401, 403, 404, 500, 504}]
  /\ got \in [Clients -> SUBSET Events]
  /\ again \in [Clients -> SUBSET Events]
  /\ listed \in [Clients -> SUBSET Paths]
  /\ partial \in [Clients -> BOOLEAN]
  /\ sure \in [Clients -> BOOLEAN]

\* What matched a client's query when it began.
Expected(c) == Matching(IndexID(ask[c]), begin[c])

\* No event that was there at first changes its place towards the front: the
\* newest come first, or nothing has expired.
NothingSlips(c) == ask[c].order = "desc" \/ cut = 0

\* A walk along the next links that comes to its end has received every event
\* from its first offset on that was there when it began and still is, however
\* the index grew meanwhile: no page was cut short and no link left out.
FinishedWalkIsComplete ==
  \A c \in Clients :
    ask[c].kind = "walk" /\ phase[c] = "complete" /\ NothingSlips(c) =>
      \A e \in Kept(Expected(c)) :
        Position(e, Expected(c), ask[c].order) >= ask[c].offset => e \in got[c]

\* The positions on a walk's page number n, counted from 0.
OnPage(a, n) == a.offset + n * Limit(a) .. a.offset + (n + 1) * Limit(a) - 1

\* A walk that the result window stops has not been stopped before: if no event
\* came in meanwhile, it has received every one on every page that lies within
\* the window, the last such page to its end, except those that have expired.
StoppedWalkHasSeenWindow ==
  \A c \in Clients : LET a == ask[c] IN
    /\ a.kind = "walk" /\ status[c] = 400 /\ got[c] # {}
    /\ arrived = begin[c] /\ NothingSlips(c)
    => \A n \in 0 .. MaxLimit : \A e \in Kept(Expected(c)) :
         /\ a.offset + (n + 1) * Limit(a) <= MaxLimit
         /\ Position(e, Expected(c), a.order) \in OnPage(a, n)
         => e \in got[c]

\* A walk along the next links receives an event twice only if new ones came
\* in: pages do not overlap and the default limit holds for the links too.
NoRepeats ==
  \A c \in Clients :
    ask[c].kind = "walk" /\ again[c] # {} => arrived # begin[c]

\* A walk back along the previous links ends at the first event and leaves
\* nothing out, as long as the index stays as it is.
FinishedWalkBackIsComplete ==
  \A c \in Clients :
    ask[c].kind = "back" /\ phase[c] = "complete" /\ arrived = begin[c] /\ cut = 0 =>
      \A e \in Expected(c) :
        Position(e, Expected(c), ask[c].order) < ask[c].offset + Limit(ask[c])
          => e \in got[c]

\* Whoever is no cluster viewer receives events of the token's own project, or
\* of its domain if it has no project, by whichever endpoint and parameters.
OnlyOwnEvents ==
  \A c \in Clients : LET token == ask[c].token IN
    ~token.viewer => \A e \in got[c] :
      \/ token.project \in TenantsOf[e]
      \/ token.project = NoTenant /\ token.domain \in TenantsOf[e]

\* The check that the API reference recommends is a good one for a download with
\* the newest events first, and for any while nothing expires: a client that
\* finds as many lines as a later list has in total has every event that was
\* there when it began and still is, although a failing download looks like a
\* good one.
EqualCountMeansComplete ==
  \A c \in Clients :
    phase[c] = "checked" /\ sure[c] /\ NothingSlips(c) =>
      Kept(Expected(c)) \subseteq got[c]

\* No event is in a download twice, even when the index grows between pages.
LinesAreDistinct ==
  \A c \in Clients :
    ask[c].kind = "download" => at[c] = Cardinality(got[c])

\* Whoever is no cluster viewer is told of values that are in events of its own
\* scope, whatever they were cut to.
OnlyOwnValues ==
  \A c \in Clients : LET token == ask[c].token IN
    ~token.viewer => \A v \in listed[c] : \E e \in Events :
      /\ TruncateSlashPath(ValueOf[e], ask[c].depth) = v
      /\ \/ token.project \in TenantsOf[e]
         \/ token.project = NoTenant /\ token.domain \in TenantsOf[e]

\* A list of whole values that is shorter than its limit leaves no value out of
\* the events that were there when it was asked for and still are: neither a
\* search cut short nor the default limit looks like a complete list.
ShortListIsComplete ==
  \A c \in Clients : LET a == ask[c] IN
    /\ a.kind = "values" /\ a.attribute # "" /\ a.depth = 0
    /\ phase[c] = "complete" /\ Cardinality(listed[c]) < ValuesLimit(a)
    => Values(Kept(Expected(c))) \subseteq listed[c]

\* How many offsets a client's next pages can still take.
Left(c) ==
  IF ask[c].kind = "back" THEN at[c]
  ELSE IF at[c] > MaxLimit THEN 0 ELSE MaxLimit - at[c]

\* A page that is not the last one brings its client nearer to the end, however
\* much arrives meanwhile: a link never leads back to its page, a walk back does
\* not turn, and a download asks for no page with the lines it has.
PagesMoveOn ==
  [][\A c \in Clients :
       ClientStep(c) /\ phase[c] = "asking" /\ phase'[c] = "asking" => Left(c)' < Left(c)]_vars

\* Every walk and every download ends, with or without success.
QueriesEnd == \A c \in Clients : phase[c] = "asking" ~> phase[c] # "asking"

\* "Callers must surface this as an explicit failure" (ErrPartialResults).
PartialIsSurfaced ==
  \A c \in Clients : phase[c] # "asking" /\ partial[c] => status[c] # 200

\* "To check that a download is complete, compare the number of lines with the
\* total returned by GET /v1/events for the same filter."
ComparedDownloadIsComplete ==
  \A c \in Clients :
    phase[c] = "checked" /\ sure[c] => Kept(Expected(c)) \subseteq got[c]

\* "If domain_id is specified, only events for that domain will be returned."
DomainOnly ==
  \A c \in Clients : ask[c].domain # NoTenant =>
    \A e \in got[c] : ask[c].domain \in TenantsOf[e]

\* "While limit will limit the total number of records returned, there may be more
\* than the limit of values listed to contain all of the various hierarchies."
AllHierarchiesListed ==
  \A c \in Clients : LET a == ask[c] IN
    a.kind = "values" /\ phase[c] = "complete" =>
      \A v \in Values(Kept(Expected(c))) : TruncateSlashPath(v, a.depth) \in listed[c]
=============================================================================
