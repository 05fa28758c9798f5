---------------------------- MODULE MCWinXPCondVar ----------------------------
EXTENDS WinXPCondVar
=============================================================================
