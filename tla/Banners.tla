------------------------------ MODULE Banners ------------------------------
(***************************************************************************)
(* BannersService, with the mode of the home page's hero that it asks      *)
(* SiteConfigService for.  Images, texts, order and layout are left out.   *)
(* Of the states of a banner, draft stands for all that are not active;    *)
(* older rows do not say whether they are enabled.                         *)
(***************************************************************************)
EXTENDS Handlers, FiniteSetsExt

CONSTANTS
  BannerIds,    \* bound: the banners there can be
  Positions     \* where banners are shown

VARIABLES
  banners,      \* banner by id
  heroMode,     \* site_config of homepage_hero_mode
  cachedMode,   \* what of it is in Redis, under site_config:all
  tornConfig    \* auxiliary: a handler ended between the database and Redis

bannerVars == <<banners, heroMode, cachedMode, tornConfig>>

Mode == {"absent", "slider"}       \* any other value stands like none
Flag == {"yes", "no", "unset"}   \* kich_hoat_hien_thi may be NULL
Side == {"left", "right", "none"}
Banner == [position : Positions, side : Side, active : BOOLEAN, enabled : Flag]

ActiveLimits == [homepage_hero |-> 1, homepage_small |-> 4, side_banner |-> 2]

BannersInit ==
  /\ banners \in [{1} -> {b \in Banner : /\ (b.side # "none") = (b.position = "side_banner")
                                         /\ b.enabled = "yes" => b.active}] \cup {<<>>}
  /\ heroMode = "absent" /\ cachedMode = "none" /\ tornConfig = FALSE

-----------------------------------------------------------------------------
(* What is enabled, and what is shown *)

resolveEnabledState(b) == IF b.enabled = "unset" THEN b.active ELSE b.enabled = "yes"

EnabledAt(S, position, but) ==
  {i \in S \ {but} : banners[i].position = position /\ resolveEnabledState(banners[i])}

\* ensureActiveLimit and ensureSidePlacementAvailable, for row i as it is to become b.
MayBeEnabled(b, i) ==
  b.enabled = "yes" =>
    LET others == EnabledAt(DOMAIN banners, b.position, i) IN
    /\ b.position \in DOMAIN ActiveLimits => Cardinality(others) < ActiveLimits[b.position]
    /\ b.position = "side_banner" => \A k \in others : banners[k].side # b.side

\* normalizeSidePlacement: only side banners have a side, and they must.
Sided(position, side) == IF position = "side_banner" THEN side ELSE "none"

getHomepageHeroMode(mode) == IF mode = "slider" THEN "slider" ELSE "banner"

\* filterHeroByMode: one of the two heroes is left out.
Allowed(mode) ==
  Positions \ {IF getHomepageHeroMode(mode) = "slider" THEN "homepage_hero" ELSE "homepage_hero_slider"}

\* findPublicMany: what customers see at a position, cut to its limit.
Shown(position, mode) ==
  LET rows == {i \in EnabledAt(DOMAIN banners, position, 0) : banners[i].active} IN
  {i \in rows : /\ position \in Allowed(mode)
               /\ position \in DOMAIN ActiveLimits
                    => Cardinality({k \in rows : k < i}) < ActiveLimits[position]}

-----------------------------------------------------------------------------
(* The administration *)

FreeIds == BannerIds \ DOMAIN banners

\* create: the checks ...
CreateBanner(r) ==
  \E b \in Banner :
    /\ FreeIds # {} /\ b.enabled # "unset" /\ (b.enabled = "yes" => b.active)
    /\ b.side = Sided(b.position, b.side) /\ (b.position = "side_banner" => b.side # "none")
    /\ MayBeEnabled(b, 0)
    /\ Begin(r, "insert", b) /\ UNCHANGED bannerVars

\* ... and the INSERT.
Insert(r) ==
  LET i == Min(FreeIds \cup {Max(BannerIds) + 1}) IN
  /\ pc[r] = "insert" /\ i \in BannerIds /\ Finish(r)
  /\ banners' = [k \in DOMAIN banners \cup {i} |-> IF k = i THEN job[r] ELSE banners[k]]
  /\ UNCHANGED <<heroMode, cachedMode, tornConfig>>

\* What becomes of b when the request gives a position, a side, a state, and whether it
\* is enabled, each of which it may leave out.
NextRow(b, position, side, active, given) ==
  [position |-> position, side |-> Sided(position, IF side = "none" THEN b.side ELSE side),
   active |-> active,
   enabled |-> IF ~active THEN "no"
               ELSE IF given # "left out" THEN given
               ELSE IF resolveEnabledState(b) THEN "yes" ELSE "no"]

\* update: the row and the checks ...
UpdateBanner(r, i) ==
  \E position \in Positions, side \in Side, active \in BOOLEAN, given \in Flag \cup {"left out"} :
    LET b == NextRow(banners[i], position, side, active, given) IN
    /\ given = "yes" => active
    /\ side # "none" => position = "side_banner"
    /\ position = "side_banner" => b.side # "none"
    /\ MayBeEnabled(b, i)
    /\ Begin(r, "update", [id |-> i, row |-> b, moved |-> position # banners[i].position])
    /\ UNCHANGED bannerVars

\* ... and the UPDATE, of no row if the banner is gone; the position only if it is given.
SaveBanner(r) ==
  /\ pc[r] = "update" /\ Finish(r)
  /\ banners' = [i \in DOMAIN banners |->
       IF i # job[r].id THEN banners[i]
       ELSE [job[r].row EXCEPT !.position = IF job[r].moved THEN @ ELSE banners[i].position]]
  /\ UNCHANGED <<heroMode, cachedMode, tornConfig>>

RemoveBanner(r, i) ==
  /\ AtOnce(r) /\ banners' = [k \in DOMAIN banners \ {i} |-> banners[k]]
  /\ UNCHANGED <<heroMode, cachedMode, tornConfig>>

-----------------------------------------------------------------------------
(* The configuration of the site *)

\* upsert and remove: the database ...
ChangeMode(r) ==
  /\ heroMode' \in Mode /\ Begin(r, "invalidate", heroMode')
  /\ UNCHANGED <<banners, cachedMode, tornConfig>>

\* ... then the entry in Redis.
Invalidate(r) ==
  /\ pc[r] = "invalidate" /\ Finish(r)
  /\ cachedMode' = "none" /\ tornConfig' = FALSE
  /\ UNCHANGED <<banners, heroMode>>

\* findAll, when Redis has no entry: the rows ...
LoadConfig(r) ==
  /\ cachedMode = "none" /\ Begin(r, "fill", heroMode) /\ UNCHANGED bannerVars

\* ... and the entry, for ten minutes.
FillCache(r) ==
  /\ pc[r] = "fill" /\ cachedMode' = job[r] /\ Finish(r)
  /\ UNCHANGED <<banners, heroMode, tornConfig>>

CacheExpires ==
  /\ cachedMode' = "none" /\ tornConfig' = FALSE /\ UNCHANGED <<handling, banners, heroMode>>

Abandon(r) ==
  /\ GiveUp(r) /\ tornConfig' = (tornConfig \/ pc[r] = "invalidate")
  /\ UNCHANGED <<banners, heroMode, cachedMode>>

Next ==
  \/ CacheExpires
  \/ \E r \in Requests :
       \/ CreateBanner(r) \/ Insert(r) \/ SaveBanner(r)
       \/ ChangeMode(r) \/ Invalidate(r) \/ LoadConfig(r) \/ FillCache(r) \/ Abandon(r)
       \/ \E i \in DOMAIN banners : UpdateBanner(r, i) \/ RemoveBanner(r, i)

-----------------------------------------------------------------------------
TypeOK ==
  /\ DOMAIN banners \subseteq BannerIds /\ \A i \in DOMAIN banners : banners[i] \in Banner
  /\ heroMode \in Mode /\ cachedMode \in {"none"} \cup Mode

\* The mode that findAll answers.
ModeSeen == IF cachedMode = "none" THEN heroMode ELSE cachedMode

\* While handlers do not overlap, customers see every banner that is enabled where the mode
\* allows: no limit ever cuts one off, unless the row of one does not say, and no two
\* compete for one side.
EnabledAreShown ==
  \A position \in Allowed(ModeSeen) :
    LET there == {i \in DOMAIN banners : banners[i].position = position}
        enabled == {i \in there : banners[i].enabled = "yes"} IN
    (\A i \in there : banners[i].enabled # "unset") =>
      /\ Shown(position, ModeSeen) = enabled
      /\ position = "side_banner" => \A i, k \in enabled : i # k => banners[i].side # banners[k].side

\* While handlers do not overlap, customers see the hero of the mode that was last stored,
\* unless a handler ended before it reached Redis and ten minutes are not over.
ModeIsCurrent ==
  (\A r \in Requests : pc[r] = "idle") /\ ~tornConfig
    => getHomepageHeroMode(ModeSeen) = getHomepageHeroMode(heroMode)
=============================================================================
