SPECIFICATION Spec
CONSTANTS
  Names = {admin, n1, n2}
  Emails = {adminEmail, e1, e2}
  Admin = admin
  AdminEmail = adminEmail
  Workers = {w1, w2}
  Seeder = Seeder
  None = None
  SecretConfigured = TRUE
  MaxCrashes = 0
INVARIANTS
  EmailsUnique
