--------------------------- MODULE MCSourceFanIn ---------------------------
\* The registry of the worker, and four searches: automatic with and without
\* the tenant's key, pasted sites, and a selection with a connector off.
EXTENDS SourceFanIn, TLC

Registered == <<"manual", "google_places", "csv", "public_directory",
                "custom_api", "website_search">>

Priorities ==
    "manual" :> 100 @@ "google_places" :> 100 @@ "csv" :> 90
    @@ "public_directory" :> 80 @@ "custom_api" :> 70 @@ "website_search" :> 60

Searches ==
    { [sources |-> {"auto"}, seeds |-> FALSE, googleKey |-> FALSE, off |-> {}],
      [sources |-> {}, seeds |-> TRUE, googleKey |-> TRUE,
       off |-> {"public_directory", "website_search"}],
      [sources |-> {"manual", "csv", "website_search"}, seeds |-> TRUE,
       googleKey |-> TRUE, off |-> {"website_search"}] }
=============================================================================
