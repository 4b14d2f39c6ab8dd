-------------------------- MODULE MCDashboardAuth --------------------------
EXTENDS DashboardAuth

CONSTANTS b1, b2

MCBrowsers == {b1, b2}
============================================================================
