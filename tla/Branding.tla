------------------------------ MODULE Branding ------------------------------
(***************************************************************************)
(* The branding of the application, one row (internal/service/             *)
(* branding_service.go, internal/handler/branding_handler.go, internal/    *)
(* adapter/postgres/branding_repo.go), and the time zone the API process   *)
(* takes from it to read dates (domain.AppTimezone).                       *)
(***************************************************************************)
EXTENDS Requests

VARIABLES
    brand,   \* the row of app_branding: [title, zone, logo]
    appZone  \* domain.AppTimezone

brandVars == <<brand, appZone>>

\* time.LoadLocation.
KnownZone(zone) == zone # "nowhere"

\* A faulty Update that applies the time zone before the row is written.
ReadAndApply(r) ==
    LET row == Over(call[r].ask, brand) IN
    /\ at[r] = "updateBranding"
    /\ appZone' = IF KnownZone(row.zone) THEN row.zone ELSE appZone
    /\ IF ~call[r].valid \/ ~KnownZone(row.zone)
         THEN Fail(r, "validation")
         ELSE Keep(r, row, "brandWrite")
    /\ UNCHANGED brand

\* Update reads the row and lays the request over it; the logo is not part of it.
ReadBranding(r) ==
    LET row == Over(call[r].ask, brand) IN
    /\ at[r] = "updateBranding"
    /\ IF ~call[r].valid \/ ~KnownZone(row.zone)
         THEN Fail(r, "validation")
         ELSE Keep(r, row, "brandWrite")
    /\ UNCHANGED brandVars

WriteBranding(r) ==
    /\ at[r] = "brandWrite"
    /\ brand' = [brand EXCEPT !.title = held[r].title, !.zone = held[r].zone]
    /\ Goto(r, "brandApply")
    /\ UNCHANGED appZone

\* ApplyTimezone, in the memory of the process.
ApplyTimezone(r) ==
    /\ at[r] = "brandApply"
    /\ appZone' = held[r].zone
    /\ Goto(r, "brandReread")
    /\ UNCHANGED brand

RereadBranding(r) ==
    /\ at[r] = "brandReread"
    /\ Reply(r, 200)
    /\ UNCHANGED brandVars

UploadLogo(r) ==
    /\ at[r] = "uploadLogo"
    /\ IF call[r].valid
         THEN brand' = [brand EXCEPT !.logo = r] /\ Reply(r, 200)
         ELSE Fail(r, "validation") /\ UNCHANGED brand
    /\ UNCHANGED appZone

\* GET /branding/logo, the one read that may miss.
GetLogo(r) ==
    /\ at[r] = "getLogo"
    /\ IF brand.logo = Nothing THEN Fail(r, "notFound") ELSE Reply(r, 200)
    /\ UNCHANGED brandVars

BrandStep(r) ==
    \/ ReadBranding(r) \/ WriteBranding(r) \/ ApplyTimezone(r) \/ RereadBranding(r)
    \/ UploadLogo(r) \/ GetLogo(r)
=============================================================================
