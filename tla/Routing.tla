-------------------------------- MODULE Routing --------------------------------
(***************************************************************************)
(* Which handler a method and a path reach: the routes in the order in     *)
(* which the application registers them, the first that matches wins.      *)
(***************************************************************************)
EXTENDS Integers, Sequences, FiniteSetsExt

Param == "{short_code}"
Api == <<"api", "v1", "urls">>

Route(methods, path, handler) == [methods |-> methods, path |-> path, handler |-> handler]

(* FastAPI adds the documentation when the application is made. *)
Documentation ==
  << Route({"GET", "HEAD"}, <<"openapi.json">>, "openapi"),
     Route({"GET", "HEAD"}, <<"docs">>, "docs"),
     Route({"GET", "HEAD"}, <<"docs", "oauth2-redirect">>, "docs"),
     Route({"GET", "HEAD"}, <<"redoc">>, "redoc") >>

HealthRoutes == << Route({"GET"}, <<"health">>, "health_check") >>

UrlRoutes ==
  << Route({"POST"}, Api, "create_short_url"),
     Route({"GET"}, Api \o <<Param>>, "get_url_metadata"),
     Route({"DELETE"}, Api \o <<Param>>, "delete_url") >>

StatsRoutes == << Route({"GET"}, Api \o <<Param, "stats">>, "get_url_stats") >>

RedirectRoutes == << Route({"GET"}, <<Param>>, "redirect_to_long_url") >>

(* create_app *)
CatchAllFirst == RedirectRoutes \o Documentation \o HealthRoutes \o UrlRoutes \o StatsRoutes
Routes == Documentation \o HealthRoutes \o UrlRoutes \o StatsRoutes \o RedirectRoutes

Matches(route, method, path) ==
  /\ method \in route.methods
  /\ Len(path) = Len(route.path)
  /\ \A i \in DOMAIN path : route.path[i] \in {path[i], Param}

(* No route: 404, or 405 when only the method is wrong. *)
Dispatch(method, path) ==
  LET hits == {i \in DOMAIN Routes : Matches(Routes[i], method, path)}
  IN  IF hits = {} THEN "none" ELSE Routes[Min(hits)].handler
===============================================================================
